---- MODULE Spec2Model ----
(***************************************************************************)
(* Streaming JSON query engine (json_genius): the array element stream     *)
(* (streaming/json-stream.ts), the path evaluator and filter engine        *)
(* (query/path-query.ts), the aggregate operations (query/aggregate.ts)    *)
(* and the hash join (query/join-engine.ts).                               *)
(*                                                                         *)
(* JSON values are tagged records.  Strings are sequences of one-character *)
(* strings so that parsing (paths, filters, literals) is computed          *)
(* character by character as the code's regular expressions do.  Numbers   *)
(* are fixed-point: Num(n) stands for the double n / Scale.                *)
(***************************************************************************)
EXTENDS Integers, Sequences, FiniteSets, TLC

VARIABLES
    file,         \* the elements of the `entities` array the pipeline reads
    emitted,      \* number of 'data' events the pipeline has emitted
    buffer,       \* json-stream.ts: const buffer
    ended,        \* json-stream.ts: let ended
    error,        \* json-stream.ts: let error
    resolveWait,  \* json-stream.ts: let resolveWait (TRUE = a resolver is stored)
    pc,           \* position of the consumer of the iterator
    yielded,      \* the items next() has returned so far, in order
    op,           \* the running operation: its options and its local variables
    calls,        \* the operations still to be called, in order
    results,      \* the results of the operations that have returned
    log           \* logger.warn messages emitted so far

vars == <<file, emitted, buffer, ended, error, resolveWait, pc, yielded,
          op, calls, results, log>>

streamVars == <<file, emitted, buffer, ended, error, resolveWait, pc, yielded>>

(***************************************************************************)
(* Bounds                                                                  *)
(***************************************************************************)
MaxFileLen == 3

\* a buffer bound that would be independent of the file: one short of the
\* longest file of the model
BufferBound == MaxFileLen - 1

(***************************************************************************)
(* JSON values                                                             *)
(***************************************************************************)
Scale == 10

Undefined == [t |-> "undefined"]
Null      == [t |-> "null"]
Bool(b)   == [t |-> "bool", b |-> b]
Num(n)    == [t |-> "num", n |-> n]
Str(s)    == [t |-> "str", s |-> s]
Arr(a)    == [t |-> "arr", a |-> a]
Obj(o)    == [t |-> "obj", o |-> o]

IsNum(v) == v.t = "num"
IsStr(v) == v.t = "str"
IsArr(v) == v.t = "arr"
IsObj(v) == v.t = "obj"

Min2(a, b) == IF a <= b THEN a ELSE b
Max2(a, b) == IF a >= b THEN a ELSE b

RECURSIVE SeqsUpTo(_, _)
SeqsUpTo(S, n) ==
    IF n = 0 THEN {<<>>}
    ELSE LET R == SeqsUpTo(S, n - 1)
         IN  R \cup {Append(s, x) : s \in {r \in R : Len(r) = n - 1}, x \in S}

(***************************************************************************)
(* Strings as sequences of characters                                      *)
(***************************************************************************)
Digits == {"0", "1", "2", "3", "4", "5", "6", "7", "8", "9"}

DigitVal(c) ==
    CASE c = "0" -> 0 [] c = "1" -> 1 [] c = "2" -> 2 [] c = "3" -> 3
      [] c = "4" -> 4 [] c = "5" -> 5 [] c = "6" -> 6 [] c = "7" -> 7
      [] c = "8" -> 8 [] c = "9" -> 9

DigitChar(d) ==
    CASE d = 0 -> "0" [] d = 1 -> "1" [] d = 2 -> "2" [] d = 3 -> "3"
      [] d = 4 -> "4" [] d = 5 -> "5" [] d = 6 -> "6" [] d = 7 -> "7"
      [] d = 8 -> "8" [] d = 9 -> "9"

\* the regular expressions' \s and String.prototype.trim
IsSpace(c) == c \in {" ", "\t", "\n", "\r"}

RECURSIVE TrimStart(_)
TrimStart(s) ==
    IF s # <<>> /\ IsSpace(Head(s)) THEN TrimStart(Tail(s)) ELSE s

RECURSIVE TrimEnd(_)
TrimEnd(s) ==
    IF s # <<>> /\ IsSpace(s[Len(s)]) THEN TrimEnd(SubSeq(s, 1, Len(s) - 1)) ELSE s

Trim(s) == TrimEnd(TrimStart(s))

\* the characters of w stand in s from position p on
HasAt(s, w, p) ==
    /\ p >= 1
    /\ p + Len(w) - 1 <= Len(s)
    /\ SubSeq(s, p, p + Len(w) - 1) = w

StartsWith(s, w) == HasAt(s, w, 1)
EndsWith(s, w) == HasAt(s, w, Len(s) - Len(w) + 1)
Includes(s, w) == \E p \in 1..(Len(s) + 1) : HasAt(s, w, p)

\* Array.prototype.includes
ArrIncludes(a, v) == \E i \in 1..Len(a) : a[i] = v

\* the letters of the operator words, for the /i flag
ToLowerChar(c) ==
    CASE c = "A" -> "a" [] c = "C" -> "c" [] c = "D" -> "d" [] c = "E" -> "e"
      [] c = "H" -> "h" [] c = "I" -> "i" [] c = "N" -> "n" [] c = "O" -> "o"
      [] c = "R" -> "r" [] c = "S" -> "s" [] c = "T" -> "t" [] c = "W" -> "w"
      [] c = "X" -> "x" [] OTHER -> c

ToLower(s) == [i \in 1..Len(s) |-> ToLowerChar(s[i])]

RECURSIVE ParseIntDigits(_)
ParseIntDigits(ds) ==
    IF ds = <<>> THEN 0
    ELSE 10 * ParseIntDigits(SubSeq(ds, 1, Len(ds) - 1)) + DigitVal(ds[Len(ds)])

RECURSIVE NatToStr(_)
NatToStr(n) ==
    IF n < 10 THEN <<DigitChar(n)>>
    ELSE Append(NatToStr(n \div 10), DigitChar(n % 10))

(***************************************************************************)
(* Path expressions: parsePath, getValuesAtPath, getValueAtPath            *)
(***************************************************************************)
PathSpecial == {".", "[", "]"}

\* last position of the run of characters of S that starts at i (i - 1 if none)
RECURSIVE RunEnd(_, _, _)
RunEnd(p, i, S) ==
    IF i <= Len(p) /\ p[i] \in S THEN RunEnd(p, i + 1, S) ELSE i - 1

RECURSIVE KeyRunEnd(_, _)
KeyRunEnd(p, i) ==
    IF i <= Len(p) /\ p[i] \notin PathSpecial THEN KeyRunEnd(p, i + 1) ELSE i - 1

KeySegment(k)   == [type |-> "key", key |-> k, index |-> 0]
WildcardSegment == [type |-> "wildcard", key |-> <<>>, index |-> 0]
IndexSegment(n) == [type |-> "index", key |-> <<>>, index |-> n]

\* the exec loop of /([^.\[\]]+)|\[(\*|\d+)\]/g from position i on
RECURSIVE ParsePathFrom(_, _)
ParsePathFrom(p, i) ==
    IF i > Len(p) THEN <<>>
    ELSE IF p[i] \notin PathSpecial
         THEN LET j == KeyRunEnd(p, i)
              IN  <<KeySegment(SubSeq(p, i, j))>> \o ParsePathFrom(p, j + 1)
    ELSE IF HasAt(p, <<"[", "*", "]">>, i)
         THEN <<WildcardSegment>> \o ParsePathFrom(p, i + 3)
    ELSE IF p[i] = "[" /\ RunEnd(p, i + 1, Digits) >= i + 1
                       /\ HasAt(p, <<"]">>, RunEnd(p, i + 1, Digits) + 1)
         THEN LET j == RunEnd(p, i + 1, Digits)
              IN  <<IndexSegment(ParseIntDigits(SubSeq(p, i + 1, j)))>>
                    \o ParsePathFrom(p, j + 2)
    ELSE ParsePathFrom(p, i + 1)

parsePath(path) == ParsePathFrom(path, 1)

HasKey(o, k) == \E i \in 1..Len(o) : o[i][1] = k
GetKey(o, k) == o[CHOOSE i \in 1..Len(o) : o[i][1] = k][2]

\* Object.values
ObjValues(o) == [i \in 1..Len(o) |-> o[i][2]]

\* a canonical array index: "0", "1", ... without leading zeros
IsIndexKey(k) ==
    /\ k # <<>>
    /\ \A i \in 1..Len(k) : k[i] \in Digits
    /\ (Len(k) > 1 => k[1] # "0")

LengthKey == <<"l", "e", "n", "g", "t", "h">>

\* the methods every object inherits from Object.prototype: `key in item` is
\* true for them although a JSON object has no such own key
ObjectPrototypeMethods ==
    {<<"c", "o", "n", "s", "t", "r", "u", "c", "t", "o", "r">>,
     <<"h", "a", "s", "O", "w", "n", "P", "r", "o", "p", "e", "r", "t", "y">>,
     <<"i", "s", "P", "r", "o", "t", "o", "t", "y", "p", "e", "O", "f">>,
     <<"p", "r", "o", "p", "e", "r", "t", "y", "I", "s", "E", "n", "u", "m", "e", "r", "a", "b", "l", "e">>,
     <<"t", "o", "L", "o", "c", "a", "l", "e", "S", "t", "r", "i", "n", "g">>,
     <<"t", "o", "S", "t", "r", "i", "n", "g">>,
     <<"v", "a", "l", "u", "e", "O", "f">>,
     <<"_", "_", "d", "e", "f", "i", "n", "e", "G", "e", "t", "t", "e", "r", "_", "_">>,
     <<"_", "_", "d", "e", "f", "i", "n", "e", "S", "e", "t", "t", "e", "r", "_", "_">>,
     <<"_", "_", "l", "o", "o", "k", "u", "p", "G", "e", "t", "t", "e", "r", "_", "_">>,
     <<"_", "_", "l", "o", "o", "k", "u", "p", "S", "e", "t", "t", "e", "r", "_", "_">>}

ProtoKey == <<"_", "_", "p", "r", "o", "t", "o", "_", "_">>

\* the methods an array inherits from Array.prototype (those of every
\* supported engine)
ArrayPrototypeMethods ==
    {<<"c", "o", "n", "c", "a", "t">>,
     <<"c", "o", "p", "y", "W", "i", "t", "h", "i", "n">>,
     <<"e", "n", "t", "r", "i", "e", "s">>,
     <<"e", "v", "e", "r", "y">>,
     <<"f", "i", "l", "l">>,
     <<"f", "i", "l", "t", "e", "r">>,
     <<"f", "i", "n", "d">>,
     <<"f", "i", "n", "d", "I", "n", "d", "e", "x">>,
     <<"f", "l", "a", "t">>,
     <<"f", "l", "a", "t", "M", "a", "p">>,
     <<"f", "o", "r", "E", "a", "c", "h">>,
     <<"i", "n", "c", "l", "u", "d", "e", "s">>,
     <<"i", "n", "d", "e", "x", "O", "f">>,
     <<"j", "o", "i", "n">>,
     <<"k", "e", "y", "s">>,
     <<"l", "a", "s", "t", "I", "n", "d", "e", "x", "O", "f">>,
     <<"m", "a", "p">>,
     <<"p", "o", "p">>,
     <<"p", "u", "s", "h">>,
     <<"r", "e", "d", "u", "c", "e">>,
     <<"r", "e", "d", "u", "c", "e", "R", "i", "g", "h", "t">>,
     <<"r", "e", "v", "e", "r", "s", "e">>,
     <<"s", "h", "i", "f", "t">>,
     <<"s", "l", "i", "c", "e">>,
     <<"s", "o", "m", "e">>,
     <<"s", "o", "r", "t">>,
     <<"s", "p", "l", "i", "c", "e">>,
     <<"u", "n", "s", "h", "i", "f", "t">>,
     <<"v", "a", "l", "u", "e", "s">>}

\* values that are not JSON: an inherited method, and a prototype object
NativeFunction(name) == [t |-> "function", name |-> name]
ObjectPrototype == [t |-> "prototype", of |-> "Object"]
ArrayPrototype  == [t |-> "prototype", of |-> "Array"]
IsPrototype(v) == v.t = "prototype"

\* `key in item` and `item[key]` along the prototype chain of a plain object
InheritedOfObject(k) ==
    IF k \in ObjectPrototypeMethods THEN <<NativeFunction(k)>>
    ELSE IF k = ProtoKey THEN <<ObjectPrototype>>
    ELSE <<>>

\* the same for an array, whose chain is Array.prototype, Object.prototype
InheritedOfArray(k) ==
    IF k \in ArrayPrototypeMethods \cup ObjectPrototypeMethods
    THEN <<NativeFunction(k)>>
    ELSE IF k = ProtoKey THEN <<ArrayPrototype>>
    ELSE <<>>

\* the own and inherited properties of the two prototype objects themselves
\* (Array.prototype is an array of length 0)
SelectKeyOfPrototype(item, k) ==
    IF item = ArrayPrototype
    THEN IF k = LengthKey THEN <<Num(0)>> ELSE InheritedOfArray(k)
    ELSE IF k \in ObjectPrototypeMethods THEN <<NativeFunction(k)>>
    ELSE IF k = ProtoKey THEN <<Null>>
    ELSE <<>>

\* `segment.key in item` and `item[segment.key]` for a key segment: the own
\* keys of an object, `length` and the in-range indices of an array, and what
\* either inherits; a function is not `typeof 'object'`
SelectKey(item, k) ==
    IF IsObj(item)
    THEN IF HasKey(item.o, k) THEN <<GetKey(item.o, k)>> ELSE InheritedOfObject(k)
    ELSE IF IsArr(item)
         THEN IF k = LengthKey THEN <<Num(Len(item.a) * Scale)>>
              ELSE IF IsIndexKey(k) /\ ParseIntDigits(k) < Len(item.a)
                   THEN <<item.a[ParseIntDigits(k) + 1]>>
              ELSE InheritedOfArray(k)
    ELSE IF IsPrototype(item) THEN SelectKeyOfPrototype(item, k)
    ELSE <<>>

\* the values one item contributes to `next` for one segment
SelectSegment(item, seg) ==
    IF item = Null \/ item = Undefined THEN <<>>
    ELSE IF seg.type = "key" THEN SelectKey(item, seg.key)
    ELSE IF seg.type = "wildcard"
         THEN IF IsArr(item) THEN item.a
              ELSE IF IsObj(item) THEN ObjValues(item.o)
              ELSE <<>>
    ELSE IF IsArr(item) /\ seg.index < Len(item.a) THEN <<item.a[seg.index + 1]>>
    ELSE <<>>

RECURSIVE StepSegment(_, _)
StepSegment(current, seg) ==
    IF current = <<>> THEN <<>>
    ELSE SelectSegment(Head(current), seg) \o StepSegment(Tail(current), seg)

RECURSIVE EvalSegments(_, _)
EvalSegments(current, segs) ==
    IF segs = <<>> THEN current
    ELSE LET next == StepSegment(current, Head(segs))
         IN  IF next = <<>> THEN next ELSE EvalSegments(next, Tail(segs))

getValuesAtPath(obj, path) == EvalSegments(<<obj>>, parsePath(path))

getValueAtPath(obj, path) ==
    LET values == getValuesAtPath(obj, path)
    IN  IF Len(values) > 0 THEN values[1] ELSE Undefined

(***************************************************************************)
(* Filter expressions: parseFilter, parseDate, compareValues, matchesFilter*)
(***************************************************************************)
MinOf(S) == CHOOSE x \in S : \A y \in S : x <= y

\* the operatorPatterns table, in the order it is tried
OperatorPatterns ==
    << [op |-> ">=", text |-> <<">", "=">>, word |-> FALSE],
       [op |-> "<=", text |-> <<"<", "=">>, word |-> FALSE],
       [op |-> "!=", text |-> <<"!", "=">>, word |-> FALSE],
       [op |-> "=",  text |-> <<"=">>, word |-> FALSE],
       [op |-> ">",  text |-> <<">">>, word |-> FALSE],
       [op |-> "<",  text |-> <<"<">>, word |-> FALSE],
       [op |-> "contains", text |-> <<"c", "o", "n", "t", "a", "i", "n", "s">>,
        word |-> TRUE],
       [op |-> "startsWith",
        text |-> <<"s", "t", "a", "r", "t", "s", "w", "i", "t", "h">>, word |-> TRUE],
       [op |-> "endsWith", text |-> <<"e", "n", "d", "s", "w", "i", "t", "h">>,
        word |-> TRUE],
       [op |-> "exists", text |-> <<"e", "x", "i", "s", "t", "s">>, word |-> TRUE] >>

\* the positions at which the pattern's operator can stand for its regex to
\* match: /^(.+?)\s*OP\s*(.+)$/, /^(.+?)\s+OP\s+(.+)$/i and /^(.+?)\s+exists$/i
MatchPositions(f, pat) ==
    LET n == Len(pat.text)
    IN  IF ~pat.word
        THEN {p \in 2..Len(f) : HasAt(f, pat.text, p) /\ p + n <= Len(f)}
        ELSE IF pat.op = "exists"
        THEN {p \in 3..Len(f) : /\ p + n - 1 = Len(f)
                                /\ IsSpace(f[p - 1])
                                /\ ToLower(SubSeq(f, p, p + n - 1)) = pat.text}
        ELSE {p \in 3..Len(f) : /\ p + n + 1 <= Len(f)
                                /\ IsSpace(f[p - 1])
                                /\ ToLower(SubSeq(f, p, p + n - 1)) = pat.text
                                /\ IsSpace(f[p + n])}

\* the decimal literals Number() accepts: [sign] digits [. digit] and . digit
\* (one fractional digit is what Scale represents; the filter texts of the
\* model carry no exponent, hex or Infinity literal)
UnsignedPart(s) == IF s # <<>> /\ s[1] \in {"-", "+"} THEN Tail(s) ELSE s

IsDecimal(u) ==
    LET i == RunEnd(u, 1, Digits)
    IN  \/ i >= 1 /\ i = Len(u)
        \/ i >= 1 /\ i + 1 = Len(u) /\ u[i + 1] = "."
        \/ i + 2 = Len(u) /\ u[i + 1] = "." /\ u[i + 2] \in Digits

\* !isNaN(Number(valueStr))
IsNumeric(s) == Trim(s) = <<>> \/ IsDecimal(UnsignedPart(Trim(s)))

DecimalOf(u) ==
    LET i == RunEnd(u, 1, Digits)
    IN  Scale * ParseIntDigits(SubSeq(u, 1, i))
          + (IF i + 2 = Len(u) THEN DigitVal(u[i + 2]) ELSE 0)

\* Number(valueStr), in units of 1 / Scale
NumberOf(s) ==
    LET t == Trim(s)
    IN  IF t = <<>> THEN 0
        ELSE IF t[1] = "-" THEN 0 - DecimalOf(Tail(t))
        ELSE DecimalOf(UnsignedPart(t))

TrueText  == <<"t", "r", "u", "e">>
FalseText == <<"f", "a", "l", "s", "e">>
NullText  == <<"n", "u", "l", "l">>

\* the literal coercion of parseFilter and parseJoinFilter
CoerceLiteral(valueStr) ==
    IF StartsWith(valueStr, <<"\"">>) /\ EndsWith(valueStr, <<"\"">>)
    THEN Str(SubSeq(valueStr, 2, Len(valueStr) - 1))
    ELSE IF valueStr = TrueText THEN Bool(TRUE)
    ELSE IF valueStr = FalseText THEN Bool(FALSE)
    ELSE IF valueStr = NullText THEN Null
    ELSE IF IsNumeric(valueStr) THEN Num(NumberOf(valueStr))
    ELSE Str(valueStr)

NoCondition == [operator |-> "null"]

\* match[1].trim() and the coerced match[2] for the pattern that matched
ConditionFor(f, pat) ==
    LET p == MinOf(MatchPositions(f, pat))
        valueStr == IF pat.op = "exists" THEN TrueText
                    ELSE Trim(SubSeq(f, p + Len(pat.text), Len(f)))
    IN  [path |-> Trim(SubSeq(f, 1, p - 1)),
         operator |-> pat.op,
         value |-> CoerceLiteral(valueStr)]

RECURSIVE ParseFilterFrom(_, _)
ParseFilterFrom(f, i) ==
    IF i > Len(OperatorPatterns) THEN NoCondition
    ELSE IF MatchPositions(f, OperatorPatterns[i]) # {}
         THEN ConditionFor(f, OperatorPatterns[i])
    ELSE ParseFilterFrom(f, i + 1)

parseFilter(filter) == ParseFilterFrom(filter, 1)

\* Date of a date-only ISO string "YYYY-MM-DD" (UTC midnight, milliseconds)
IsLeap(y) == (y % 4 = 0 /\ y % 100 # 0) \/ y % 400 = 0

DaysInMonth(y, m) ==
    IF m = 2 THEN (IF IsLeap(y) THEN 29 ELSE 28)
    ELSE IF m \in {4, 6, 9, 11} THEN 30 ELSE 31

RECURSIVE DaysBeforeMonth(_, _)
DaysBeforeMonth(y, m) ==
    IF m = 1 THEN 0 ELSE DaysBeforeMonth(y, m - 1) + DaysInMonth(y, m - 1)

RECURSIVE DaysBeforeYear(_)
DaysBeforeYear(y) ==
    IF y = 1970 THEN 0
    ELSE DaysBeforeYear(y - 1) + (IF IsLeap(y - 1) THEN 366 ELSE 365)

IsIsoDate(s) ==
    /\ Len(s) = 10
    /\ \A i \in {1, 2, 3, 4, 6, 7, 9, 10} : s[i] \in Digits
    /\ s[5] = "-" /\ s[8] = "-"
    /\ ParseIntDigits(SubSeq(s, 1, 4)) >= 1970
    /\ ParseIntDigits(SubSeq(s, 6, 7)) \in 1..12
    /\ ParseIntDigits(SubSeq(s, 9, 10)) >= 1
    /\ ParseIntDigits(SubSeq(s, 9, 10))
         <= DaysInMonth(ParseIntDigits(SubSeq(s, 1, 4)), ParseIntDigits(SubSeq(s, 6, 7)))

MsPerDay == 86400000

IsoDateMs(s) ==
    LET y == ParseIntDigits(SubSeq(s, 1, 4))
        m == ParseIntDigits(SubSeq(s, 6, 7))
        d == ParseIntDigits(SubSeq(s, 9, 10))
    IN  (DaysBeforeYear(y) + DaysBeforeMonth(y, m) + d - 1) * MsPerDay

\* the time value of new Date(number): the number truncated to an integer
TimeClip(n) == IF n >= 0 THEN n \div Scale ELSE 0 - ((0 - n) \div Scale)

NoDate == [some |-> FALSE]
DateAt(ms) == [some |-> TRUE, time |-> ms]

\* parseDate: the strings of the model are date-only ISO strings, which parse,
\* or words without digits, which new Date() rejects
parseDate(value) ==
    IF IsStr(value) /\ IsIsoDate(value.s) THEN DateAt(IsoDateMs(value.s))
    ELSE IF IsNum(value) THEN DateAt(TimeClip(value.n))
    ELSE NoDate

Ordering(a, operator, b) ==
    CASE operator = ">"  -> a > b
      [] operator = "<"  -> a < b
      [] operator = ">=" -> a >= b
      [] operator = "<=" -> a <= b

\* the cases of compareValues that path-query.ts, aggregate.ts and
\* join-engine.ts share
CompareBasic(actual, operator, expected) ==
    CASE operator = "="  -> actual = expected
      [] operator = "!=" -> actual # expected
      [] operator = "exists" -> actual # Undefined /\ actual # Null
      [] operator = "contains" ->
            IF IsStr(actual) /\ IsStr(expected) THEN Includes(actual.s, expected.s)
            ELSE IF IsArr(actual) THEN ArrIncludes(actual.a, expected)
            ELSE FALSE
      [] operator = "startsWith" ->
            IsStr(actual) /\ IsStr(expected) /\ StartsWith(actual.s, expected.s)
      [] operator = "endsWith" ->
            IsStr(actual) /\ IsStr(expected) /\ EndsWith(actual.s, expected.s)

OrderingOps == {">", "<", ">=", "<="}

\* compareValues of path-query.ts and aggregate.ts: dates first, then numbers
compareValues(actual, operator, expected) ==
    IF operator \in OrderingOps
    THEN LET actualDate == parseDate(actual)
             expectedDate == parseDate(expected)
         IN  IF actualDate.some /\ expectedDate.some
             THEN Ordering(actualDate.time, operator, expectedDate.time)
             ELSE IF IsNum(actual) /\ IsNum(expected)
                  THEN Ordering(actual.n, operator, expected.n)
             ELSE FALSE
    ELSE CompareBasic(actual, operator, expected)

\* mutant: every value has to satisfy the comparison
matchesFilterEvery(obj, condition) ==
    LET values == getValuesAtPath(obj, condition.path)
    IN  /\ Len(values) > 0
        /\ \A i \in 1..Len(values) :
              IF condition.operator = "exists"
              THEN values[i] # Undefined /\ values[i] # Null
              ELSE compareValues(values[i], condition.operator, condition.value)

matchesFilter(obj, condition) ==
    LET values == getValuesAtPath(obj, condition.path)
    IN  IF condition.operator = "exists"
        THEN /\ Len(values) > 0
             /\ \E i \in 1..Len(values) : values[i] # Undefined /\ values[i] # Null
        ELSE \E i \in 1..Len(values) :
                 compareValues(values[i], condition.operator, condition.value)

(***************************************************************************)
(* The array element stream: createJsonArrayStream and its async iterator  *)
(***************************************************************************)
\* `let error: Error | null = null`
NoError == Null

\* the Error the parser stage emits for malformed JSON and the chain hands to
\* the 'error' listener: the parser is given the bytes of the file, not its
\* path
ParseError ==
    [t |-> "error",
     message |-> <<"P", "a", "r", "s", "e", "r", " ", "c", "a", "n", "n", "o", "t", " ",
                   "p", "a", "r", "s", "e", " ", "i", "n", "p", "u", "t">>]

\* the StreamArrayItem that the i-th 'data' event carries
ItemAt(i) == [key |-> i - 1, value |-> file[i]]

\* while (buffer.length === 0 && !ended && !error)
MustWait == Len(buffer) = 0 /\ ~ended /\ error = NoError

\* `resolveWait(); resolveWait = null` of the three listeners: the promise
\* the consumer awaits is resolved and its continuation becomes runnable
Wake == /\ resolveWait' = FALSE
        /\ pc' = IF resolveWait THEN "woken" ELSE pc

\* pipeline.on('data', ...): nothing in the listener pauses the pipeline, so
\* a 'data' event may arrive whatever the consumer is doing
OnData ==
    /\ pc \in {"idle", "waiting", "woken"}
    /\ ~ended /\ error = NoError
    /\ emitted < Len(file)
    /\ emitted' = emitted + 1
    /\ buffer' = Append(buffer, ItemAt(emitted + 1))
    /\ Wake
    /\ UNCHANGED <<file, ended, error, yielded, op, calls, results, log>>

\* mutant: the 'end' listener sets the flag and wakes nobody
OnEndSilent ==
    /\ pc \in {"idle", "waiting", "woken"}
    /\ ~ended /\ error = NoError
    /\ emitted = Len(file)
    /\ ended' = TRUE
    /\ UNCHANGED <<file, emitted, buffer, error, resolveWait, pc, yielded,
                   op, calls, results, log>>

\* pipeline.on('end', ...): after the last element of the array
OnEnd ==
    /\ pc \in {"idle", "waiting", "woken"}
    /\ ~ended /\ error = NoError
    /\ emitted = Len(file)
    /\ ended' = TRUE
    /\ Wake
    /\ UNCHANGED <<file, emitted, buffer, error, yielded, op, calls, results, log>>

\* pipeline.on('error', ...): the parser may fail at any point of the document
OnError ==
    /\ pc \in {"idle", "waiting", "woken"}
    /\ ~ended /\ error = NoError
    /\ error' = ParseError
    /\ Wake
    /\ UNCHANGED <<file, emitted, buffer, ended, yielded, op, calls, results, log>>

\* next(): the loop condition holds, the consumer stores a resolver and awaits
NextWait ==
    /\ pc \in {"idle", "woken"}
    /\ MustWait
    /\ resolveWait' = TRUE
    /\ pc' = "waiting"
    /\ UNCHANGED <<file, emitted, buffer, ended, error, yielded, op, calls, results, log>>

\* mutant: the newest buffered item is returned (pop instead of shift)
IterYieldNewest ==
    /\ pc \in {"idle", "woken"}
    /\ ~MustWait
    /\ error = NoError
    /\ Len(buffer) > 0
    /\ buffer' = SubSeq(buffer, 1, Len(buffer) - 1)
    /\ yielded' = Append(yielded, buffer[Len(buffer)])
    /\ pc' = "idle"
    /\ UNCHANGED <<file, emitted, ended, error, resolveWait>>

\* next(): `if (buffer.length > 0) return { value: buffer.shift(), done: false }`
IterYield ==
    /\ pc \in {"idle", "woken"}
    /\ ~MustWait
    /\ error = NoError
    /\ Len(buffer) > 0
    /\ buffer' = Tail(buffer)
    /\ yielded' = Append(yielded, Head(buffer))
    /\ pc' = "idle"
    /\ UNCHANGED <<file, emitted, ended, error, resolveWait>>

\* mutant: the end of the stream is reported although an error is pending
AtEndIgnoringError ==
    /\ pc \in {"idle", "woken"}
    /\ ~MustWait
    /\ Len(buffer) = 0

\* next() is about to `return { value: undefined, done: true }`
AtEnd ==
    /\ pc \in {"idle", "woken"}
    /\ ~MustWait
    /\ error = NoError
    /\ Len(buffer) = 0

\* next(): `return { value: undefined, done: true }`
IterDone ==
    /\ AtEnd
    /\ pc' = "done"
    /\ UNCHANGED <<file, emitted, buffer, ended, error, resolveWait, yielded>>

\* mutant: a stream that ends without any element is treated as an error
IterThrowOnEmpty ==
    /\ pc \in {"idle", "woken"}
    /\ ~MustWait
    /\ error # NoError \/ (buffer = <<>> /\ yielded = <<>>)
    /\ pc' = "thrown"
    /\ UNCHANGED <<file, emitted, buffer, ended, error, resolveWait, yielded>>

\* next(): `if (error) throw error`
IterThrow ==
    /\ pc \in {"idle", "woken"}
    /\ ~MustWait
    /\ error # NoError
    /\ pc' = "thrown"
    /\ UNCHANGED <<file, emitted, buffer, ended, error, resolveWait, yielded>>

\* a fresh iterator over `f`: the state [Symbol.asyncIterator]() sets up
OpenStream(f) ==
    /\ file' = f
    /\ emitted' = 0
    /\ buffer' = <<>>
    /\ ended' = FALSE
    /\ error' = NoError
    /\ resolveWait' = FALSE
    /\ yielded' = <<>>
    /\ pc' = "idle"

InitStreamOn(f) ==
    /\ file = f
    /\ emitted = 0
    /\ buffer = <<>>
    /\ ended = FALSE
    /\ error = NoError
    /\ resolveWait = FALSE
    /\ yielded = <<>>
    /\ pc = "idle"


(***************************************************************************)
(* The documents of the model                                              *)
(***************************************************************************)
kId   == <<"i", "d">>
kLv   == <<"l", "v">>
kTags == <<"t", "g">>

\* {id: "pa", lv: 1.5, tg: [1, 2]}
EntA == Obj(<< <<kId, Str(<<"p", "a">>)>>, <<kLv, Num(15)>>,
               <<kTags, Arr(<<Num(10), Num(20)>>)>> >>)
\* {id: "pb", lv: 2, tg: [2]}
EntB == Obj(<< <<kId, Str(<<"p", "b">>)>>, <<kLv, Num(20)>>,
               <<kTags, Arr(<<Num(20)>>)>> >>)
\* {id: "pc", tg: []}
EntC == Obj(<< <<kId, Str(<<"p", "c">>)>>, <<kTags, Arr(<<>>)>> >>)

Entities == {EntA, EntB, EntC}

Files == SeqsUpTo(Entities, MaxFileLen)

NoOp == [kind |-> "none"]

(***************************************************************************)
(* SpecStream: one iterator of createJsonArrayStream and one consumer that *)
(* calls next() sequentially, at any pace                                  *)
(***************************************************************************)
ConsumerTake  == IterYield /\ UNCHANGED <<op, calls, results, log>>
ConsumerDone  == IterDone  /\ UNCHANGED <<op, calls, results, log>>
ConsumerThrow == IterThrow /\ UNCHANGED <<op, calls, results, log>>

InitStream ==
    /\ \E f \in Files : InitStreamOn(f)
    /\ op = NoOp
    /\ calls = <<>>
    /\ results = <<>>
    /\ log = <<>>

NextStream ==
    \/ OnData
    \/ OnEnd
    \/ OnError
    \/ NextWait
    \/ ConsumerTake
    \/ ConsumerDone
    \/ ConsumerThrow

SpecStream == InitStream /\ [][NextStream]_vars

\* C1: the iterator yields exactly the emitted elements, once each and in
\* document order, and reports done only after all of them: the yielded
\* sequence is always a prefix of the array's items and is the whole array
\* when next() returns done.
C1_StreamEqualsArray ==
    /\ Len(yielded) <= Len(file)
    /\ \A i \in 1..Len(yielded) : yielded[i] = [key |-> i - 1, value |-> file[i]]
    /\ pc = "done" => Len(yielded) = Len(file)

\* a whole array of several elements has been streamed, some of it having
\* waited in the buffer
C1_Witness ==
    /\ pc = "done"
    /\ Len(yielded) >= 2
    /\ yielded[1].value # yielded[2].value

\* C2: back-pressure, the elements produced and not yet requested never
\* exceed a bound that is independent of the file.
C2_BackPressure == Len(buffer) <= BufferBound

(***************************************************************************)
(* executeQuery (path-query.ts)                                            *)
(***************************************************************************)
\* a limit above every length the model reaches stands for Infinity
Infinity == 1000000

DefaultLimit == 100
DefaultOffset == 0

\* an options object is a record that carries the supplied options only
Has(options, name) == name \in DOMAIN options

\* a destructuring default: `limit = 100`
OrDefault(options, name, d) == IF Has(options, name) THEN options[name] ELSE d

\* `if (filter)`: the option is supplied and is not the empty string
Truthy(options, name) == Has(options, name) /\ options[name] # <<>>

With(options, name, v) ==
    [k \in DOMAIN options \cup {name} |-> IF k = name THEN v ELSE options[k]]

Without(options, name) == [k \in DOMAIN options \ {name} |-> options[k]]

NoOptions == <<>>

\* result[k] = v on a record kept as a sequence of <<key, value>> pairs
RECURSIVE SetKey(_, _, _)
SetKey(o, k, v) ==
    IF o = <<>> THEN << <<k, v>> >>
    ELSE IF Head(o)[1] = k THEN << <<k, v>> >> \o Tail(o)
    ELSE <<Head(o)>> \o SetKey(Tail(o), k, v)

\* position of the last "." of s (0 if none)
RECURSIVE LastDot(_, _)
LastDot(s, i) == IF i = 0 \/ s[i] = "." THEN i ELSE LastDot(s, i - 1)

\* field.split('.').pop() || field
LastSegment(field) ==
    LET d == LastDot(field, Len(field))
    IN  IF d = Len(field) THEN field ELSE SubSeq(field, d + 1, Len(field))

DotLength == <<".">> \o LengthKey

\* field.replace('.length', ''): the first occurrence is removed
RemoveFirstDotLength(field) ==
    LET P == {p \in 1..Len(field) : HasAt(field, DotLength, p)}
    IN  IF P = {} THEN field
        ELSE SubSeq(field, 1, MinOf(P) - 1)
               \o SubSeq(field, MinOf(P) + Len(DotLength), Len(field))

\* result[fieldName] = value on a plain object: the key __proto__ is the
\* accessor of Object.prototype and creates no entry
AssignField(result, fieldName, value) ==
    IF fieldName = ProtoKey THEN result ELSE SetKey(result, fieldName, value)

RECURSIVE extractFieldsFrom(_, _, _)
extractFieldsFrom(obj, select, result) ==
    IF select = <<>> THEN result
    ELSE LET field == Head(select)
             fieldName == LastSegment(field)
             value == getValueAtPath(obj, field)
             arr == getValueAtPath(obj, RemoveFirstDotLength(field))
         IN  extractFieldsFrom(obj, Tail(select),
                 AssignField(result, fieldName,
                        IF EndsWith(field, DotLength) /\ IsArr(arr)
                        THEN Num(Len(arr.a) * Scale)
                        ELSE value))

extractFields(obj, select) == Obj(extractFieldsFrom(obj, select, <<>>))

InvalidFilterWarning(filter) ==
    [level |-> "warn", message |-> "Invalid filter expression", filter |-> filter]

\* `if (filter) { filterCondition = parseFilter(filter); ... }`
ConditionOf(options) ==
    IF Truthy(options, "filter") THEN parseFilter(options.filter) ELSE NoCondition

\* `if (!filterCondition) logger.warn(...)` of executeQuery and executeJoin
WarnIfInvalid(options, condition) ==
    IF Truthy(options, "filter") /\ condition = NoCondition
    THEN Append(log, InvalidFilterWarning(options.filter))
    ELSE log

Callable == pc \in {"ready", "done", "thrown"}

\* executeQuery up to its loop: options, stream, filter
QueryStart ==
    /\ Callable
    /\ calls # <<>>
    /\ Head(calls).kind = "executeQuery"
    /\ LET c == Head(calls)
           filterCondition == ConditionOf(c.options)
       IN  /\ OpenStream(c.file)
           /\ log' = WarnIfInvalid(c.options, filterCondition)
           /\ op' = [kind |-> "executeQuery",
                     call |-> c,
                     select |-> OrDefault(c.options, "select", <<>>),
                     limit |-> OrDefault(c.options, "limit", DefaultLimit),
                     offset |-> OrDefault(c.options, "offset", DefaultOffset),
                     filterCondition |-> filterCondition,
                     items |-> <<>>,
                     totalMatched |-> 0,
                     totalScanned |-> 0]
    /\ calls' = Tail(calls)
    /\ UNCHANGED results

\* mutant: the offset test is `totalMatched < offset`
QueryBodyOffsetOffByOne(o, value) ==
    LET scanned == [o EXCEPT !.totalScanned = @ + 1]
        matched == [scanned EXCEPT !.totalMatched = @ + 1]
    IN  IF o.filterCondition # NoCondition /\ ~matchesFilter(value, o.filterCondition)
        THEN scanned
        ELSE IF matched.totalMatched < o.offset THEN matched
        ELSE IF Len(o.items) >= o.limit THEN matched
        ELSE IF Len(o.select) > 0
             THEN [matched EXCEPT !.items = Append(@, extractFields(value, o.select))]
        ELSE [matched EXCEPT !.items = Append(@, value)]

\* mutant: matches are no longer counted once the limit is reached
QueryBodyStopsCounting(o, value) ==
    LET scanned == [o EXCEPT !.totalScanned = @ + 1]
        matched == [scanned EXCEPT !.totalMatched = @ + 1]
    IN  IF o.filterCondition # NoCondition /\ ~matchesFilter(value, o.filterCondition)
        THEN scanned
        ELSE IF matched.totalMatched <= o.offset THEN matched
        ELSE IF Len(o.items) >= o.limit THEN scanned
        ELSE IF Len(o.select) > 0
             THEN [matched EXCEPT !.items = Append(@, extractFields(value, o.select))]
        ELSE [matched EXCEPT !.items = Append(@, value)]

\* one iteration of `for await (const { value } of stream)` of executeQuery
QueryBody(o, value) ==
    LET scanned == [o EXCEPT !.totalScanned = @ + 1]
        matched == [scanned EXCEPT !.totalMatched = @ + 1]
    IN  IF o.filterCondition # NoCondition /\ ~matchesFilter(value, o.filterCondition)
        THEN scanned
        ELSE IF matched.totalMatched <= o.offset THEN matched
        ELSE IF Len(o.items) >= o.limit THEN matched
        ELSE IF Len(o.select) > 0
             THEN [matched EXCEPT !.items = Append(@, extractFields(value, o.select))]
        ELSE [matched EXCEPT !.items = Append(@, value)]

QueryStep ==
    /\ op.kind = "executeQuery"
    /\ IterYield
    /\ op' = QueryBody(op, Head(buffer).value)
    /\ UNCHANGED <<calls, results, log>>

QueryReturn ==
    /\ op.kind = "executeQuery"
    /\ IterDone
    /\ results' = Append(results, [kind |-> "executeQuery",
                                   call |-> op.call,
                                   items |-> op.items,
                                   totalMatched |-> op.totalMatched,
                                   totalScanned |-> op.totalScanned])
    /\ op' = NoOp
    /\ UNCHANGED <<calls, log>>

\* the error next() throws leaves the loop and rejects the operation's promise
OpReject ==
    /\ op.kind # "none"
    /\ IterThrow
    /\ results' = Append(results, [kind |-> "rejected", call |-> op.call,
                                   error |-> error])
    /\ op' = NoOp
    /\ UNCHANGED <<calls, log>>

QueryCall(f, options) == [kind |-> "executeQuery", file |-> f, options |-> options]

(***************************************************************************)
(* SpecQuery: executeQuery is called twice on the same file, the second    *)
(* time with reference options (no pagination, or no filter)               *)
(***************************************************************************)
MaxLimit == 2
MaxOffset == 2

\* "tg[*] = 2": a wildcard filter, true of EntA and EntB
FilterTagsIs2 == <<"t", "g", "[", "*", "]", " ", "=", " ", "2">>
\* "lv": no operator, parseFilter returns null
FilterNoOperator == <<"l", "v">>

QueryFilterTexts == {FilterTagsIs2, FilterNoOperator}

\* select: ["id", "tg.length"]
QuerySelect == <<kId, kTags \o DotLength>>

PageOptions ==
    {[limit |-> l, offset |-> o] : l \in 0..MaxLimit, o \in 0..MaxOffset}
      \cup {NoOptions}

FilterChoices(o) == {o} \cup {With(o, "filter", t) : t \in QueryFilterTexts}
SelectChoices(o) == {o, With(o, "select", QuerySelect)}

QueryOptions ==
    UNION {UNION {SelectChoices(o2) : o2 \in FilterChoices(o1)} : o1 \in PageOptions}

Unpaged(o) == With(With(o, "limit", Infinity), "offset", 0)

\* the options the second call may take: the same query without pagination,
\* or, for a filter that does not parse, the same call without the filter
ReferenceOptions(o) ==
    {Unpaged(o)} \cup
    (IF Truthy(o, "filter") /\ parseFilter(o.filter) = NoCondition
     THEN {Without(o, "filter")} ELSE {})

InitHarness ==
    /\ file = <<>>
    /\ emitted = 0
    /\ buffer = <<>>
    /\ ended = FALSE
    /\ error = NoError
    /\ resolveWait = FALSE
    /\ yielded = <<>>
    /\ pc = "ready"
    /\ op = NoOp
    /\ results = <<>>
    /\ log = <<>>

QueryFiles == SeqsUpTo({EntA, EntC}, MaxFileLen)

InitQuery ==
    /\ InitHarness
    /\ \E f \in QueryFiles, o \in QueryOptions :
         \E r \in ReferenceOptions(o) :
            calls = <<QueryCall(f, o), QueryCall(f, r)>>

NextQuery ==
    \/ QueryStart
    \/ OnData
    \/ OnEnd
    \/ OnError
    \/ NextWait
    \/ QueryStep
    \/ QueryReturn
    \/ OpReject

SpecQuery == InitQuery /\ [][NextQuery]_vars

\* items.slice(from, to)
Slice(items, from, to) == SubSeq(items, from + 1, Min2(to, Len(items)))

QueryResults == {i \in DOMAIN results : results[i].kind = "executeQuery"}

LimitOf(r)  == OrDefault(r.call.options, "limit", DefaultLimit)
OffsetOf(r) == OrDefault(r.call.options, "offset", DefaultOffset)

SameQuery(r1, r2) ==
    /\ r1.call.file = r2.call.file
    /\ Without(Without(r1.call.options, "limit"), "offset")
         = Without(Without(r2.call.options, "limit"), "offset")

\* C3: pagination law, the items of executeQuery with {limit: L, offset: O}
\* are the slice [O, O+L) of the items of the same query with
\* {limit: Infinity, offset: 0}.
C3_PaginationLaw ==
    \A i \in QueryResults, j \in QueryResults :
        (/\ SameQuery(results[i], results[j])
         /\ LimitOf(results[j]) = Infinity
         /\ OffsetOf(results[j]) = 0)
        => results[i].items
             = Slice(results[j].items, OffsetOf(results[i]),
                     OffsetOf(results[i]) + LimitOf(results[i]))

\* a page that starts after the first match and is cut by the limit
C3_Witness ==
    /\ Len(results) = 2
    /\ QueryResults = {1, 2}
    /\ OffsetOf(results[1]) = 1
    /\ LimitOf(results[1]) = 1
    /\ Len(results[1].items) = 1
    /\ Len(results[2].items) = 3
    /\ LimitOf(results[2]) = Infinity

\* the elements of a file that pass the (parsed) filter of the options
Passing(f, options) ==
    {i \in 1..Len(f) :
        \/ ConditionOf(options) = NoCondition
        \/ matchesFilter(f[i], ConditionOf(options))}

\* C4: totalScanned is the number of elements of the array and totalMatched
\* the number of elements passing the filter, whatever limit and offset are;
\* items never exceeds limit and totalMatched never exceeds totalScanned.
C4_QueryTotals ==
    \A i \in QueryResults :
        LET r == results[i]
        IN  /\ r.totalScanned = Len(r.call.file)
            /\ r.totalMatched = Cardinality(Passing(r.call.file, r.call.options))
            /\ Len(r.items) <= LimitOf(r)
            /\ r.totalMatched <= r.totalScanned

\* the limit has cut the output while the totals kept counting, and the
\* filter has rejected an element
C4_Witness ==
    \E i \in QueryResults :
        /\ LimitOf(results[i]) = 1
        /\ Len(results[i].items) = 1
        /\ results[i].totalMatched = 2
        /\ results[i].totalScanned = 3

(***************************************************************************)
(* The join filter (join-engine.ts): parseJoinFilter, compareValues,       *)
(* matchesJoinFilter                                                       *)
(***************************************************************************)
SidePrefixA == <<"a", ".">>
SidePrefixB == <<"b", ".">>

\* pathStr.slice(2)
Slice2(pathStr) == SubSeq(pathStr, 3, Len(pathStr))

\* parseJoinFilter: the patterns and the coercion of parseFilter, and the
\* a. / b. prefix taken off the path
parseJoinFilter(filter) ==
    LET c == ParseFilterFrom(filter, 1)
    IN  IF c = NoCondition THEN NoCondition
        ELSE IF StartsWith(c.path, SidePrefixA)
             THEN [path |-> Slice2(c.path), operator |-> c.operator,
                   value |-> c.value, side |-> "a"]
        ELSE IF StartsWith(c.path, SidePrefixB)
             THEN [path |-> Slice2(c.path), operator |-> c.operator,
                   value |-> c.value, side |-> "b"]
        ELSE [path |-> c.path, operator |-> c.operator,
              value |-> c.value, side |-> "null"]

\* compareValues of join-engine.ts: numbers only for the ordering operators
compareValuesJoin(actual, operator, expected) ==
    IF operator \in OrderingOps
    THEN IF IsNum(actual) /\ IsNum(expected)
         THEN Ordering(actual.n, operator, expected.n)
         ELSE FALSE
    ELSE CompareBasic(actual, operator, expected)

\* the two `values.some(...)` returns that end each branch of matchesJoinFilter
SomeJoinValue(values, condition) ==
    IF condition.operator = "exists"
    THEN /\ Len(values) > 0
         /\ \E i \in 1..Len(values) : values[i] # Undefined /\ values[i] # Null
    ELSE \E i \in 1..Len(values) :
             compareValuesJoin(values[i], condition.operator, condition.value)

matchesJoinFilter(left, right, condition) ==
    IF condition.side = "a"
    THEN SomeJoinValue(getValuesAtPath(left, condition.path), condition)
    ELSE IF condition.side = "b"
    THEN SomeJoinValue(getValuesAtPath(right, condition.path), condition)
    ELSE SomeJoinValue(getValuesAtPath(left, condition.path)
                         \o getValuesAtPath(right, condition.path), condition)

\* extractPathValuesWithSide of aggregators.ts: no prefix selects the left
extractPathValuesWithSide(path, left, right) ==
    IF StartsWith(path, SidePrefixA) THEN getValuesAtPath(left, Slice2(path))
    ELSE IF StartsWith(path, SidePrefixB) THEN getValuesAtPath(right, Slice2(path))
    ELSE getValuesAtPath(left, path)

(***************************************************************************)
(* SpecFilter: the filter functions applied to drawn inputs                *)
(***************************************************************************)
IsoJan2 == <<"1", "9", "7", "0", "-", "0", "1", "-", "0", "2">>
IsoJan3 == <<"1", "9", "7", "0", "-", "0", "1", "-", "0", "3">>

\* {id: "pd", lv: "1970-01-02", tg: [null, 2]}
EntD == Obj(<< <<kId, Str(<<"p", "d">>)>>, <<kLv, Str(IsoJan2)>>,
               <<kTags, Arr(<<Null, Num(20)>>)>> >>)

FilterObjects == {EntA, EntB, EntC, EntD}

FilterTexts ==
    { FilterTagsIs2,
      FilterNoOperator,
      <<"t", "g", "[", "*", "]", " ", "!", "=", " ", "2">>,
      <<"t", "g", "[", "*", "]", " ", "e", "x", "i", "s", "t", "s">>,
      <<"t", "g", " ", "c", "o", "n", "t", "a", "i", "n", "s", " ", "1">>,
      <<"l", "v", " ", ">", " ", "1">>,
      <<"l", "v", ">", "=", "2">>,
      <<"l", "v", " ", "<", " ">> \o IsoJan3,
      <<"l", "v", " ", "e", "x", "i", "s", "t", "s">>,
      <<"i", "d", " ", "e", "n", "d", "s", "W", "i", "t", "h", " ", "\"", "a", "\"">>,
      <<"a", ".", "l", "v", " ", "<", "=", " ", "1", ".", "5">>,
      <<"b", ".", "l", "v", " ", "<", "=", " ", "1", ".", "5">>,
      <<"l", "v", " ", "=", " ", "2">>,
      <<"l", "v", " ", "!", "=", " ", "2">>,
      <<"l", "v", " ", "c", "o", "n", "t", "a", "i", "n", "s", " ", "\"", "7", "\"">>,
      <<"l", "v", " ", "s", "t", "a", "r", "t", "s", "W", "i", "t", "h", " ", "\"", "1", "\"">>,
      <<"l", "v", " ", "e", "n", "d", "s", "W", "i", "t", "h", " ", "\"", "2", "\"">> }

CompareActuals ==
    {Num(10), Num(15), Num(20), Num(0 - 15), Str(IsoJan2), Str(<<"p", "a">>),
     Null, Bool(TRUE), Arr(<<Num(10)>>)}

CompareExpecteds == {Num(10), Num(12), Num(20), Str(IsoJan3), Str(<<"a">>), Null}

Operators ==
    {"=", "!=", ">", "<", ">=", "<=", "contains", "startsWith", "endsWith", "exists"}

\* mutant: `!=` is decided as the negation of `=`
EvalMatchesFilterNegating ==
    /\ calls # <<>>
    /\ Head(calls).kind = "matchesFilter"
    /\ LET c == Head(calls)
           condition == parseFilter(c.text)
       IN  results' = Append(results,
                [kind |-> "matchesFilter", call |-> c, condition |-> condition,
                 outcome |-> IF condition.operator = "!="
                             THEN ~matchesFilter(c.left, [condition EXCEPT !.operator = "="])
                             ELSE matchesFilter(c.left, condition)])
    /\ calls' = Tail(calls)
    /\ UNCHANGED <<streamVars, op, log>>

\* matchesFilter(obj, parseFilter(text)) of path-query.ts and aggregate.ts
EvalMatchesFilter ==
    /\ calls # <<>>
    /\ Head(calls).kind = "matchesFilter"
    /\ LET c == Head(calls)
           condition == parseFilter(c.text)
       IN  results' = Append(results,
                [kind |-> "matchesFilter", call |-> c, condition |-> condition,
                 outcome |-> matchesFilter(c.left, condition)])
    /\ calls' = Tail(calls)
    /\ UNCHANGED <<streamVars, op, log>>

\* matchesJoinFilter(left, right, parseJoinFilter(text)) of join-engine.ts
EvalMatchesJoinFilter ==
    /\ calls # <<>>
    /\ Head(calls).kind = "matchesJoinFilter"
    /\ LET c == Head(calls)
           condition == parseJoinFilter(c.text)
       IN  results' = Append(results,
                [kind |-> "matchesJoinFilter", call |-> c, condition |-> condition,
                 outcome |-> matchesJoinFilter(c.left, c.right, condition)])
    /\ calls' = Tail(calls)
    /\ UNCHANGED <<streamVars, op, log>>

\* compareValues(actual, operator, expected) of each of the three modules
EvalCompareValues ==
    /\ calls # <<>>
    /\ Head(calls).kind = "compareValues"
    /\ LET c == Head(calls)
       IN  results' = Append(results,
                [kind |-> "compareValues", call |-> c,
                 outcome |-> compareValues(c.actual, c.operator, c.expected),
                 joinOutcome |-> compareValuesJoin(c.actual, c.operator, c.expected)])
    /\ calls' = Tail(calls)
    /\ UNCHANGED <<streamVars, op, log>>

FilterCalls ==
    {[kind |-> "matchesFilter", left |-> l, text |-> t] :
        l \in FilterObjects,
        t \in {x \in FilterTexts : parseFilter(x) # NoCondition}}
    \cup
    {[kind |-> "matchesJoinFilter", left |-> l, right |-> r, text |-> t] :
        l \in FilterObjects, r \in FilterObjects,
        t \in {x \in FilterTexts : parseJoinFilter(x) # NoCondition}}
    \cup
    {[kind |-> "compareValues", actual |-> a, operator |-> o, expected |-> e] :
        a \in CompareActuals, o \in Operators, e \in CompareExpecteds}

InitFilter ==
    /\ InitHarness
    /\ \E c \in FilterCalls : calls = <<c>>

NextFilter ==
    \/ EvalMatchesFilter
    \/ EvalMatchesJoinFilter
    \/ EvalCompareValues

SpecFilter == InitFilter /\ [][NextFilter]_vars

FilterResults(kind) == {i \in DOMAIN results : results[i].kind = kind}

\* C7: a join filter without a. or b. prefix is decided by the left element
\* alone: its outcome is that of the condition evaluated against the left
\* element, whatever the right element holds.
C7_NoPrefixIsLeft ==
    \A i \in FilterResults("matchesJoinFilter") :
        LET r == results[i]
        IN  r.condition.side = "null"
            => r.outcome
                 = SomeJoinValue(extractPathValuesWithSide(r.condition.path,
                                     r.call.left, r.call.right), r.condition)

\* does the value satisfy the condition's comparison
Satisfies(v, condition) ==
    IF condition.operator = "exists" THEN v # Null /\ v # Undefined
    ELSE compareValues(v, condition.operator, condition.value)

\* C8: matchesFilter is true exactly when at least one of the values
\* getValuesAtPath returns for the condition's path satisfies the comparison.
C8_AnyValueMatches ==
    \A i \in FilterResults("matchesFilter") :
        LET r == results[i]
            values == getValuesAtPath(r.call.left, r.condition.path)
        IN  r.condition # NoCondition
            => (r.outcome <=> \E k \in 1..Len(values) : Satisfies(values[k], r.condition))

\* a wildcard path yields two values, one satisfies the comparison, the other
\* does not, and the filter matches
C8_Witness ==
    \E i \in FilterResults("matchesFilter") :
        LET r == results[i]
            values == getValuesAtPath(r.call.left, r.condition.path)
        IN  /\ r.condition # NoCondition
            /\ r.outcome
            /\ Len(values) = 2
            /\ \E k \in 1..2 : ~Satisfies(values[k], r.condition)

\* the same condition with `=` in place of `!=` and the reverse
Opposite(condition) ==
    [condition EXCEPT !.operator = IF @ = "=" THEN "!=" ELSE "="]

\* C28: a filter whose path yields no values on an element does not match
\* it, whatever the operator; for `=` and `!=` the filter with the other
\* operator does not match the element either.
C28_AbsentNeverMatches ==
    \A i \in FilterResults("matchesFilter") :
        LET r == results[i]
        IN  getValuesAtPath(r.call.left, r.condition.path) = <<>>
            => /\ ~r.outcome
               /\ r.condition.operator \in {"=", "!="}
                    => ~matchesFilter(r.call.left, Opposite(r.condition))

\* `p != v` was evaluated on an element where p is absent and did not match
C28_Witness ==
    \E i \in FilterResults("matchesFilter") :
        /\ results[i].condition.operator = "!="
        /\ getValuesAtPath(results[i].call.left, results[i].condition.path) = <<>>
        /\ ~results[i].outcome

\* `p != v` matched an element that `p = v` matches too: a wildcard path
\* with one value equal to v and one different from it
C28_BothMatch ==
    \E i \in FilterResults("matchesFilter") :
        /\ results[i].condition.operator = "!="
        /\ results[i].outcome
        /\ matchesFilter(results[i].call.left, Opposite(results[i].condition))

\* C9: for >, <, >=, <= a matched number and a number literal compare as
\* numbers.
C9_NumericFirst ==
    \A i \in FilterResults("compareValues") :
        LET c == results[i].call
        IN  (c.operator \in OrderingOps /\ IsNum(c.actual) /\ IsNum(c.expected))
            => /\ results[i].outcome = Ordering(c.actual.n, c.operator, c.expected.n)
               /\ results[i].joinOutcome = Ordering(c.actual.n, c.operator, c.expected.n)

(***************************************************************************)
(* executeJoin (join-engine.ts): buildRightIndex, the probe of the left    *)
(* file, extractJoinFields                                                 *)
(***************************************************************************)
\* String(number) for a number with at most one fractional digit
NumToStr(n) ==
    LET a == IF n < 0 THEN 0 - n ELSE n
        digits == NatToStr(a \div Scale)
                    \o (IF a % Scale = 0 THEN <<>> ELSE <<".", DigitChar(a % Scale)>>)
    IN  IF n < 0 THEN <<"-">> \o digits ELSE digits

ObjectText ==
    <<"[", "o", "b", "j", "e", "c", "t", " ", "O", "b", "j", "e", "c", "t", "]">>

\* String(f) of a built-in method
FunctionText(name) ==
    <<"f", "u", "n", "c", "t", "i", "o", "n", " ">> \o name
      \o <<"(", ")", " ", "{", " ", "[", "n", "a", "t", "i", "v", "e", " ",
           "c", "o", "d", "e", "]", " ", "}">>

\* String(value); an array is its elements joined by ",", null and undefined
\* elements giving the empty string
RECURSIVE ToStr(_)
RECURSIVE JoinComma(_)
ToStr(v) ==
    CASE v.t = "str" -> v.s
      [] v.t = "num" -> NumToStr(v.n)
      [] v.t = "bool" -> IF v.b THEN TrueText ELSE FalseText
      [] v.t = "null" -> NullText
      [] v.t = "undefined" -> <<"u", "n", "d", "e", "f", "i", "n", "e", "d">>
      [] v.t = "arr" -> JoinComma(v.a)
      [] v.t = "obj" -> ObjectText
      [] v.t = "function" -> FunctionText(v.name)
      [] v.t = "prototype" -> IF v.of = "Array" THEN <<>> ELSE ObjectText
JoinComma(a) ==
    IF a = <<>> THEN <<>>
    ELSE LET h == IF Head(a) = Null \/ Head(a) = Undefined THEN <<>> ELSE ToStr(Head(a))
         IN  IF Len(a) = 1 THEN h ELSE h \o <<",">> \o JoinComma(Tail(a))

\* index.get(key) ?? []
IndexGet(index, key) == IF HasKey(index, key) THEN GetKey(index, key) ELSE <<>>

\* one iteration of the loop of buildRightIndex
IndexBody(o, value) ==
    LET keyValue == getValueAtPath(value, o.rightKey)
        key == ToStr(keyValue)
        scanned == [o EXCEPT !.rightScanned = @ + 1]
    IN  IF keyValue # Undefined /\ keyValue # Null
        THEN [scanned EXCEPT !.rightIndex =
                 SetKey(@, key, Append(IndexGet(@, key), value))]
        ELSE scanned

\* extractJoinFields
RECURSIVE extractJoinFieldsFrom(_, _, _, _)
extractJoinFieldsFrom(left, right, select, result) ==
    IF select = <<>> THEN result
    ELSE LET field == Head(select)
             side == IF StartsWith(field, SidePrefixA) THEN "a"
                     ELSE IF StartsWith(field, SidePrefixB) THEN "b" ELSE "null"
             pathStr == IF side = "null" THEN field ELSE Slice2(field)
             fieldName == LastSegment(pathStr)
             targetObj == IF side = "b" THEN right ELSE left
             arr == getValueAtPath(targetObj, RemoveFirstDotLength(pathStr))
         IN  extractJoinFieldsFrom(left, right, Tail(select),
                 AssignField(result, fieldName,
                        IF EndsWith(pathStr, DotLength)
                        THEN (IF IsArr(arr) THEN Num(Len(arr.a) * Scale) ELSE Num(0))
                        ELSE getValueAtPath(targetObj, pathStr)))

extractJoinFields(left, right, select) ==
    Obj(extractJoinFieldsFrom(left, right, select, <<>>))

\* { left: leftEntity, right: rightEntity }
Pair(left, right) == Obj(<< <<<<"l", "e", "f", "t">>, left>>,
                           <<<<"r", "i", "g", "h", "t">>, right>> >>)

JoinItem(o, left, right) ==
    IF Len(o.select) > 0 THEN extractJoinFields(left, right, o.select)
    ELSE Pair(left, right)

\* mutant: matches are no longer counted once the limit is reached
RECURSIVE ProbeMatchesStopsCounting(_, _, _)
ProbeMatchesStopsCounting(o, left, rightMatches) ==
    IF rightMatches = <<>> THEN o
    ELSE LET right == Head(rightMatches)
             matched == [o EXCEPT !.totalMatched = @ + 1]
             next ==
                 IF o.filterCondition # NoCondition
                      /\ ~matchesJoinFilter(left, right, o.filterCondition)
                 THEN o
                 ELSE IF Len(o.items) >= o.limit THEN o
                 ELSE [matched EXCEPT !.items = Append(@, JoinItem(o, left, right))]
         IN  ProbeMatchesStopsCounting(next, left, Tail(rightMatches))

\* `for (const rightEntity of rightMatches)`
RECURSIVE ProbeMatches(_, _, _)
ProbeMatches(o, left, rightMatches) ==
    IF rightMatches = <<>> THEN o
    ELSE LET right == Head(rightMatches)
             matched == [o EXCEPT !.totalMatched = @ + 1]
             next ==
                 IF o.filterCondition # NoCondition
                      /\ ~matchesJoinFilter(left, right, o.filterCondition)
                 THEN o
                 ELSE IF Len(o.items) >= o.limit THEN matched
                 ELSE [matched EXCEPT !.items = Append(@, JoinItem(o, left, right))]
         IN  ProbeMatches(next, left, Tail(rightMatches))

\* `for (const lk of leftKeys)`
RECURSIVE ProbeKeys(_, _, _)
ProbeKeys(o, left, leftKeys) ==
    IF leftKeys = <<>> THEN o
    ELSE LET lk == Head(leftKeys)
             next == IF lk = Undefined \/ lk = Null THEN o
                     ELSE ProbeMatches(o, left, IndexGet(o.rightIndex, ToStr(lk)))
         IN  ProbeKeys(next, left, Tail(leftKeys))

\* one iteration of `for await (const { value: leftEntity } of leftStream)`
ProbeBody(o, leftEntity) ==
    ProbeKeys([o EXCEPT !.leftScanned = @ + 1], leftEntity,
              getValuesAtPath(leftEntity, o.leftKey))

\* executeJoin with both keys supplied, up to the loop of buildRightIndex
JoinStart ==
    /\ Callable
    /\ calls # <<>>
    /\ Head(calls).kind = "executeJoin"
    /\ Truthy(Head(calls).options, "leftKey")
    /\ Truthy(Head(calls).options, "rightKey")
    /\ LET c == Head(calls)
           filterCondition ==
               IF Truthy(c.options, "filter") THEN parseJoinFilter(c.options.filter)
               ELSE NoCondition
       IN  /\ OpenStream(c.rightFile)
           /\ log' = WarnIfInvalid(c.options, filterCondition)
           /\ op' = [kind |-> "executeJoin",
                     phase |-> "index",
                     call |-> c,
                     leftKey |-> c.options.leftKey,
                     rightKey |-> c.options.rightKey,
                     autoDetected |-> FALSE,
                     select |-> OrDefault(c.options, "select", <<>>),
                     limit |-> OrDefault(c.options, "limit", DefaultLimit),
                     filterCondition |-> filterCondition,
                     rightIndex |-> <<>>,
                     rightScanned |-> 0,
                     items |-> <<>>,
                     totalMatched |-> 0,
                     leftScanned |-> 0]
    /\ calls' = Tail(calls)
    /\ UNCHANGED results

IndexStep ==
    /\ op.kind = "executeJoin"
    /\ op.phase = "index"
    /\ IterYield
    /\ op' = IndexBody(op, Head(buffer).value)
    /\ UNCHANGED <<calls, results, log>>

\* buildRightIndex returns and executeJoin opens the left stream
IndexDone ==
    /\ op.kind = "executeJoin"
    /\ op.phase = "index"
    /\ AtEnd
    /\ OpenStream(op.call.leftFile)
    /\ op' = [op EXCEPT !.phase = "probe"]
    /\ UNCHANGED <<calls, results, log>>

ProbeStep ==
    /\ op.kind = "executeJoin"
    /\ op.phase = "probe"
    /\ IterYield
    /\ op' = ProbeBody(op, Head(buffer).value)
    /\ UNCHANGED <<calls, results, log>>

JoinReturn ==
    /\ op.kind = "executeJoin"
    /\ op.phase = "probe"
    /\ IterDone
    /\ results' = Append(results,
            [kind |-> "executeJoin",
             call |-> op.call,
             rightIndex |-> op.rightIndex,
             filterCondition |-> op.filterCondition,
             items |-> op.items,
             totalMatched |-> op.totalMatched,
             leftScanned |-> op.leftScanned,
             rightScanned |-> op.rightScanned,
             joinKeys |-> [leftKey |-> op.leftKey, rightKey |-> op.rightKey,
                           autoDetected |-> op.autoDetected]])
    /\ op' = NoOp
    /\ UNCHANGED <<calls, log>>

JoinCall(l, r, options) ==
    [kind |-> "executeJoin", leftFile |-> l, rightFile |-> r, options |-> options]

(***************************************************************************)
(* SpecJoin: executeJoin with explicit keys on drawn left and right files  *)
(***************************************************************************)
MaxRightLen == 2

kRefs == <<"r", "f">>
kKeys == <<"k", "s">>

\* left: {id: "la", rf: ["pa", "pb"], lv: 1}
LeftA == Obj(<< <<kId, Str(<<"l", "a">>)>>,
                <<kRefs, Arr(<<Str(<<"p", "a">>), Str(<<"p", "b">>)>>)>>,
                <<kLv, Num(10)>> >>)
\* left: {id: "lb", rf: [null, "pa"]}
LeftB == Obj(<< <<kId, Str(<<"l", "b">>)>>,
                <<kRefs, Arr(<<Null, Str(<<"p", "a">>)>>)>> >>)
\* right: {ks: ["pa", "pb"], lv: 2}
RightA == Obj(<< <<kKeys, Arr(<<Str(<<"p", "a">>), Str(<<"p", "b">>)>>)>>,
                 <<kLv, Num(20)>> >>)
\* right: {ks: ["pa"], lv: 1}
RightB == Obj(<< <<kKeys, Arr(<<Str(<<"p", "a">>)>>)>>, <<kLv, Num(10)>> >>)

LeftFiles  == SeqsUpTo({LeftA, LeftB}, MaxFileLen)
RightFiles == SeqsUpTo({RightA, RightB}, MaxRightLen)

\* leftKey "rf[*]", rightKey "ks[*]"
JoinKeys == [leftKey |-> kRefs \o <<"[", "*", "]">>,
             rightKey |-> kKeys \o <<"[", "*", "]">>]

\* "b.lv > 1"
FilterRightLv == <<"b", ".", "l", "v", " ", ">", " ", "1">>

\* select: ["a.id", "b.lv"]
JoinSelect == <<SidePrefixA \o kId, SidePrefixB \o kLv>>

JoinLimitChoices(o) == {o} \cup {With(o, "limit", l) : l \in 0..MaxLimit}
JoinFilterChoices(o) ==
    {o} \cup {With(o, "filter", t) : t \in {FilterRightLv, FilterNoOperator}}
JoinSelectChoices(o) == {o, With(o, "select", JoinSelect)}

JoinOptionSet ==
    UNION {UNION {JoinSelectChoices(o2) : o2 \in JoinFilterChoices(o1)} :
             o1 \in JoinLimitChoices(JoinKeys)}

InitJoin ==
    /\ InitHarness
    /\ \E l \in LeftFiles, r \in RightFiles, o \in JoinOptionSet :
          calls = <<JoinCall(l, r, o)>>

NextJoin ==
    \/ JoinStart
    \/ OnData
    \/ OnEnd
    \/ OnError
    \/ NextWait
    \/ IndexStep
    \/ IndexDone
    \/ ProbeStep
    \/ JoinReturn
    \/ OpReject

SpecJoin == InitJoin /\ [][NextJoin]_vars

\* the non-null values a key path yields on an element
KeyValuesOf(e, keyPath) ==
    LET values == getValuesAtPath(e, keyPath)
    IN  {values[i] : i \in {j \in 1..Len(values) :
                               values[j] # Null /\ values[j] # Undefined}}

\* C5: once the index is built, every right element is listed under the
\* string form of every non-null value its key path yields, the values of a
\* wildcard expansion included.
C5_IndexComplete ==
    (op.kind = "executeJoin" /\ op.phase = "probe")
    => \A i \in 1..Len(op.call.rightFile) :
          \A k \in KeyValuesOf(op.call.rightFile[i], op.rightKey) :
              ArrIncludes(IndexGet(op.rightIndex, ToStr(k)), op.call.rightFile[i])

JoinResults == {i \in DOMAIN results : results[i].kind = "executeJoin"}

\* the (left, right) combinations of one left element that pass the filter:
\* for each non-null left key value in turn, the right elements indexed
\* under it
RECURSIVE CombosOfKeys(_, _, _)
CombosOfKeys(r, left, leftKeys) ==
    IF leftKeys = <<>> THEN <<>>
    ELSE LET lk == Head(leftKeys)
             rights == IF lk = Null \/ lk = Undefined THEN <<>>
                       ELSE IndexGet(r.rightIndex, ToStr(lk))
             pairs == [n \in 1..Len(rights) |-> <<left, rights[n]>>]
         IN  SelectSeq(pairs, LAMBDA pr :
                 \/ r.filterCondition = NoCondition
                 \/ matchesJoinFilter(pr[1], pr[2], r.filterCondition))
               \o CombosOfKeys(r, left, Tail(leftKeys))

RECURSIVE CombosOfFile(_, _)
CombosOfFile(r, lefts) ==
    IF lefts = <<>> THEN <<>>
    ELSE CombosOfKeys(r, Head(lefts),
                      getValuesAtPath(Head(lefts), r.joinKeys.leftKey))
           \o CombosOfFile(r, Tail(lefts))

JoinLimitOf(r) == OrDefault(r.call.options, "limit", DefaultLimit)

ProjectCombo(r, pr) ==
    IF Has(r.call.options, "select") /\ Len(r.call.options.select) > 0
    THEN extractJoinFields(pr[1], pr[2], r.call.options.select)
    ELSE Pair(pr[1], pr[2])

\* C6: totalMatched is the number of (left element, left key value, indexed
\* right element) combinations passing the filter whatever the limit; items
\* are the first min(limit, totalMatched) of them in left-stream order;
\* leftScanned counts every left element.
C6_JoinTotals ==
    \A i \in JoinResults :
        LET r == results[i]
            combos == CombosOfFile(r, r.call.leftFile)
            n == Min2(JoinLimitOf(r), Len(combos))
        IN  /\ r.totalMatched = Len(combos)
            /\ r.items = [k \in 1..n |-> ProjectCombo(r, combos[k])]
            /\ r.leftScanned = Len(r.call.leftFile)

\* the limit cut the items, more combinations matched, and the left file
\* was read to its end
C6_Witness ==
    \E i \in JoinResults :
        /\ JoinLimitOf(results[i]) = 1
        /\ Len(results[i].items) = 1
        /\ results[i].totalMatched >= 3
        /\ results[i].leftScanned >= 2
        /\ results[i].filterCondition # NoCondition

(***************************************************************************)
(* Numbers of the aggregations: binary floating point, round to nearest,   *)
(* ties to even.  A finite number is kept as a count of units of           *)
(* 2^-FractionBits and carries at most MantissaBits significant bits (an   *)
(* IEEE double has 53 and units of 2^-1074).                               *)
(***************************************************************************)
MantissaBits == 7
FractionBits == 10

RECURSIVE Pow2(_)
Pow2(n) == IF n = 0 THEN 1 ELSE 2 * Pow2(n - 1)

FloatOne == Pow2(FractionBits)

\* number of bits of a natural number
RECURSIVE BitLen(_)
BitLen(n) == IF n = 0 THEN 0 ELSE 1 + BitLen(n \div 2)

Abs(n) == IF n < 0 THEN 0 - n ELSE n

\* a / d rounded to the nearest integer, ties to even (a >= 0, d > 0)
RoundHalfEven(a, d) ==
    LET q == a \div d
        r == a % d
    IN  IF 2 * r < d THEN q
        ELSE IF 2 * r > d THEN q + 1
        ELSE IF q % 2 = 0 THEN q ELSE q + 1

\* the representable number nearest to num / den units (den > 0)
RoundRational(num, den) ==
    LET a == Abs(num)
        quantum == Pow2(Max2(0, BitLen(a \div den) - MantissaBits))
        m == RoundHalfEven(a, den * quantum) * quantum
    IN  IF num < 0 THEN 0 - m ELSE m

Finite(u)   == [fin |-> u]
PosInfinity == [inf |-> 1]
NegInfinity == [inf |-> -1]
NaN         == [nan |-> TRUE]

IsFinite(x)   == "fin" \in DOMAIN x
IsInfinite(x) == "inf" \in DOMAIN x
IsNaN(x)      == "nan" \in DOMAIN x

Zero == Finite(0)

\* the number an integer stands for (small integers are exact)
OfInt(n) == Finite(RoundRational(n * FloatOne, 1))

\* the number a JSON literal n / Scale is parsed to
OfLiteral(n) == Finite(RoundRational(n * FloatOne, Scale))

\* x + y
FAdd(x, y) ==
    IF IsNaN(x) \/ IsNaN(y) THEN NaN
    ELSE IF IsInfinite(x) THEN (IF IsInfinite(y) /\ y # x THEN NaN ELSE x)
    ELSE IF IsInfinite(y) THEN y
    ELSE Finite(RoundRational(x.fin + y.fin, 1))

\* -x
FNeg(x) ==
    IF IsNaN(x) THEN NaN
    ELSE IF IsInfinite(x) THEN [inf |-> 0 - x.inf]
    ELSE Finite(0 - x.fin)

\* x - y
FSub(x, y) == FAdd(x, FNeg(y))

Sign(n) == IF n < 0 THEN -1 ELSE 1

\* x / y
FDiv(x, y) ==
    IF IsNaN(x) \/ IsNaN(y) THEN NaN
    ELSE IF IsInfinite(x)
         THEN IF IsInfinite(y) THEN NaN
              ELSE [inf |-> x.inf * Sign(y.fin)]
    ELSE IF IsInfinite(y) THEN Zero
    ELSE IF y.fin = 0
         THEN IF x.fin = 0 THEN NaN ELSE [inf |-> Sign(x.fin)]
    ELSE Finite(Sign(y.fin) * RoundRational(x.fin * FloatOne, Abs(y.fin)))

\* x < y and x <= y (false when either is NaN)
FLess(x, y) ==
    /\ ~IsNaN(x) /\ ~IsNaN(y)
    /\ IF IsInfinite(x) THEN x.inf = -1 /\ y # x
       ELSE IF IsInfinite(y) THEN y.inf = 1
       ELSE x.fin < y.fin

FLessEq(x, y) == ~IsNaN(x) /\ ~IsNaN(y) /\ (x = y \/ FLess(x, y))

\* Math.min, Math.max
MathMin(x, y) ==
    IF IsNaN(x) \/ IsNaN(y) THEN NaN ELSE IF FLess(y, x) THEN y ELSE x

MathMax(x, y) ==
    IF IsNaN(x) \/ IsNaN(y) THEN NaN ELSE IF FLess(x, y) THEN y ELSE x

\* x * y (finite operands)
FMul(x, y) ==
    IF IsFinite(x) /\ IsFinite(y)
    THEN Finite(Sign(x.fin) * Sign(y.fin)
                  * RoundRational(Abs(x.fin) * Abs(y.fin), FloatOne))
    ELSE NaN

\* x.toFixed(1) of a finite number: the nearest tenth, the larger one on a tie
ToFixed1(x) ==
    LET a == Abs(x.fin)
        n == (2 * 10 * a + FloatOne) \div (2 * FloatOne)
        text == NatToStr(n \div 10) \o <<".", DigitChar(n % 10)>>
    IN  IF x.fin < 0 THEN <<"-">> \o text ELSE text

\* Math.floor
MathFloor(x) ==
    IF IsFinite(x) THEN Finite((x.fin \div FloatOne) * FloatOne) ELSE x

\* `x || d` for a number: 0 and NaN are falsy
OrElse(x, d) == IF IsNaN(x) \/ x = Zero THEN d ELSE x

(***************************************************************************)
(* count (aggregate.ts)                                                    *)
(***************************************************************************)
\* count up to its loop: the filter is parsed, nothing is logged when
\* parseFilter returns null
CountStart ==
    /\ Callable
    /\ calls # <<>>
    /\ Head(calls).kind = "count"
    /\ LET c == Head(calls)
       IN  /\ OpenStream(c.file)
           /\ op' = [kind |-> "count",
                     call |-> c,
                     filterCondition |-> ConditionOf(c.options),
                     total |-> 0,
                     scanned |-> 0]
    /\ calls' = Tail(calls)
    /\ UNCHANGED <<results, log>>

\* one iteration of the loop of count
CountBody(o, value) ==
    LET scanned == [o EXCEPT !.scanned = @ + 1]
    IN  IF o.filterCondition # NoCondition /\ ~matchesFilter(value, o.filterCondition)
        THEN scanned
        ELSE [scanned EXCEPT !.total = @ + 1]

CountStep ==
    /\ op.kind = "count"
    /\ IterYield
    /\ op' = CountBody(op, Head(buffer).value)
    /\ UNCHANGED <<calls, results, log>>

CountReturn ==
    /\ op.kind = "count"
    /\ IterDone
    /\ results' = Append(results, [kind |-> "count", call |-> op.call,
                                   total |-> op.total, scanned |-> op.scanned])
    /\ op' = NoOp
    /\ UNCHANGED <<calls, log>>

CountCall(f, options) == [kind |-> "count", file |-> f, options |-> options]

(***************************************************************************)
(* groupBy (aggregate.ts)                                                  *)
(***************************************************************************)
\* key = v === null ? 'null' : v === undefined ? 'undefined' : String(v)
GroupKey(v) == ToStr(v)

\* groups[key] on the plain object `groups = {}`: an own counter, or what the
\* object inherits from Object.prototype, or undefined
GroupsGet(groups, key) ==
    IF HasKey(groups, key) THEN GetKey(groups, key)
    ELSE IF InheritedOfObject(key) # <<>> THEN InheritedOfObject(key)[1]
    ELSE Undefined

\* (groups[key] || 0) + 1: a number is incremented; anything else that is
\* truthy is converted to a string and "1" is appended to it
Incremented(v) ==
    IF v = Undefined \/ v = Null THEN Num(1 * Scale)
    ELSE IF IsNum(v) THEN Num(v.n + 1 * Scale)
    ELSE IF IsStr(v) /\ v.s = <<>> THEN Num(1 * Scale)
    ELSE Str(ToStr(v) \o <<"1">>)

\* groups[key] = value: `__proto__` is an accessor of Object.prototype whose
\* setter ignores a value that is neither an object nor null
GroupsSet(groups, key, v) ==
    IF key = ProtoKey /\ ~HasKey(groups, key) THEN groups
    ELSE SetKey(groups, key, v)

\* for (const v of values) { groups[key] = (groups[key] || 0) + 1; total++ }
RECURSIVE GroupValues(_, _)
GroupValues(o, values) ==
    IF values = <<>> THEN o
    ELSE LET key == GroupKey(Head(values))
         IN  GroupValues(
                 [o EXCEPT !.groups = GroupsSet(@, key, Incremented(GroupsGet(@, key))),
                           !.total = @ + 1],
                 Tail(values))

\* one iteration of the loop of groupBy
GroupByBody(o, value) ==
    LET scanned == [o EXCEPT !.scanned = @ + 1]
    IN  IF o.filterCondition # NoCondition /\ ~matchesFilter(value, o.filterCondition)
        THEN scanned
        ELSE GroupValues(scanned, getValuesAtPath(value, o.call.options.path))

\* groupBy up to its loop
GroupByStart ==
    /\ Callable
    /\ calls # <<>>
    /\ Head(calls).kind = "groupBy"
    /\ LET c == Head(calls)
       IN  /\ OpenStream(c.file)
           /\ op' = [kind |-> "groupBy",
                     call |-> c,
                     filterCondition |-> ConditionOf(c.options),
                     groups |-> <<>>,
                     total |-> 0,
                     scanned |-> 0]
    /\ calls' = Tail(calls)
    /\ UNCHANGED <<results, log>>

GroupByStep ==
    /\ op.kind = "groupBy"
    /\ IterYield
    /\ op' = GroupByBody(op, Head(buffer).value)
    /\ UNCHANGED <<calls, results, log>>

GroupByReturn ==
    /\ op.kind = "groupBy"
    /\ IterDone
    /\ results' = Append(results, [kind |-> "groupBy", call |-> op.call,
                                   groups |-> op.groups,
                                   total |-> op.total,
                                   uniqueValues |-> Len(op.groups),
                                   scanned |-> op.scanned])
    /\ op' = NoOp
    /\ UNCHANGED <<calls, log>>

GroupByCall(f, options) == [kind |-> "groupBy", file |-> f, options |-> options]

(***************************************************************************)
(* stats and distribution (aggregate.ts)                                   *)
(***************************************************************************)
DefaultBuckets == 10

\* typeof v === 'number' && !isNaN(v): a JSON number is never NaN
IsNumberValue(v) == IsNum(v)

\* for (const v of values) { count++; sum += v; min = ...; max = ... }
RECURSIVE StatsValues(_, _)
StatsValues(o, values) ==
    IF values = <<>> THEN o
    ELSE IF IsNumberValue(Head(values))
         THEN LET v == OfLiteral(Head(values).n)
              IN  StatsValues([o EXCEPT !.count = @ + 1,
                                        !.sum = FAdd(@, v),
                                        !.min = MathMin(@, v),
                                        !.max = MathMax(@, v)],
                              Tail(values))
    ELSE StatsValues(o, Tail(values))

\* one iteration of the loop of stats
StatsBody(o, value) ==
    LET scanned == [o EXCEPT !.scanned = @ + 1]
    IN  IF o.filterCondition # NoCondition /\ ~matchesFilter(value, o.filterCondition)
        THEN scanned
        ELSE StatsValues(scanned, getValuesAtPath(value, o.call.options.path))

\* mutant: the average and the extremes are returned without the count guard
StatsResultUnguarded(o) ==
    [count |-> o.count,
     sum |-> o.sum,
     avg |-> FDiv(o.sum, OfInt(o.count)),
     min |-> o.min,
     max |-> o.max,
     scanned |-> o.scanned]

\* what stats returns
StatsResult(o) ==
    [count |-> o.count,
     sum |-> o.sum,
     avg |-> IF o.count > 0 THEN FDiv(o.sum, OfInt(o.count)) ELSE Zero,
     min |-> IF o.count > 0 THEN o.min ELSE Zero,
     max |-> IF o.count > 0 THEN o.max ELSE Zero,
     scanned |-> o.scanned]

\* stats up to its loop, called directly or as the first pass of distribution
StatsStart ==
    /\ Callable
    /\ calls # <<>>
    /\ Head(calls).kind \in {"stats", "distribution"}
    /\ LET c == Head(calls)
       IN  /\ OpenStream(c.file)
           /\ op' = [kind |-> "stats",
                     call |-> c,
                     filterCondition |-> ConditionOf(c.options),
                     count |-> 0,
                     sum |-> Zero,
                     min |-> PosInfinity,
                     max |-> NegInfinity,
                     scanned |-> 0]
    /\ calls' = Tail(calls)
    /\ UNCHANGED <<results, log>>

StatsStep ==
    /\ op.kind = "stats"
    /\ IterYield
    /\ op' = StatsBody(op, Head(buffer).value)
    /\ UNCHANGED <<calls, results, log>>

StatsReturn ==
    /\ op.kind = "stats"
    /\ op.call.kind = "stats"
    /\ IterDone
    /\ results' = Append(results, [kind |-> "stats", call |-> op.call]
                                    @@ StatsResult(op))
    /\ op' = NoOp
    /\ UNCHANGED <<calls, log>>

StatsCall(f, options) == [kind |-> "stats", file |-> f, options |-> options]

BucketCountOf(options) == OrDefault(options, "buckets", DefaultBuckets)

\* const bucketSize = (max - min) / bucketCount || 1
BucketSize(min, max, bucketCount) ==
    OrElse(FDiv(FSub(max, min), OfInt(bucketCount)), OfInt(1))

\* Math.min(Math.floor((v - min) / bucketSize), bucketCount - 1)
BucketIndex(v, min, bucketSize, bucketCount) ==
    MathMin(MathFloor(FDiv(FSub(v, min), bucketSize)), OfInt(bucketCount - 1))

\* counts[bucketIndex]++ on an array: an index that is not an element of the
\* array creates a property that counts.map never visits
BucketIncrement(counts, index) ==
    IF IsFinite(index) /\ index.fin % FloatOne = 0
         /\ index.fin \div FloatOne \in 0..(Len(counts) - 1)
    THEN [counts EXCEPT ![index.fin \div FloatOne + 1] = @ + 1]
    ELSE counts

\* for (const v of values) { counts[bucketIndex]++; total++ }
RECURSIVE DistributionValues(_, _)
DistributionValues(o, values) ==
    IF values = <<>> THEN o
    ELSE IF IsNumberValue(Head(values))
         THEN LET v == OfLiteral(Head(values).n)
                  index == BucketIndex(v, o.min, o.bucketSize, o.bucketCount)
              IN  DistributionValues(
                      [o EXCEPT !.counts = BucketIncrement(@, index),
                                !.total = @ + 1],
                      Tail(values))
    ELSE DistributionValues(o, Tail(values))

\* one iteration of the second pass of distribution
DistributionBody(o, value) ==
    LET scanned == [o EXCEPT !.scanned = @ + 1]
    IN  IF o.filterCondition # NoCondition /\ ~matchesFilter(value, o.filterCondition)
        THEN scanned
        ELSE DistributionValues(scanned, getValuesAtPath(value, o.call.options.path))

\* the first pass found no number: `if (statsResult.count === 0) return ...`
\* (statsResult is kept with the result for reference, it is not returned)
DistributionEmpty ==
    /\ op.kind = "stats"
    /\ op.call.kind = "distribution"
    /\ op.count = 0
    /\ IterDone
    /\ results' = Append(results, [kind |-> "distribution", call |-> op.call,
                                   statsResult |-> StatsResult(op),
                                   buckets |-> <<>>,
                                   total |-> 0,
                                   scanned |-> StatsResult(op).scanned])
    /\ op' = NoOp
    /\ UNCHANGED <<calls, log>>

\* the first pass is over and found numbers: the second stream is opened
DistributionSecondPass ==
    /\ op.kind = "stats"
    /\ op.call.kind = "distribution"
    /\ op.count # 0
    /\ AtEnd
    /\ OpenStream(op.call.file)
    /\ LET statsResult == StatsResult(op)
           bucketCount == BucketCountOf(op.call.options)
       IN  op' = [kind |-> "distribution",
                  call |-> op.call,
                  statsResult |-> statsResult,
                  filterCondition |-> ConditionOf(op.call.options),
                  min |-> statsResult.min,
                  max |-> statsResult.max,
                  bucketCount |-> bucketCount,
                  bucketSize |-> BucketSize(statsResult.min, statsResult.max,
                                            bucketCount),
                  counts |-> [i \in 1..bucketCount |-> 0],
                  total |-> 0,
                  scanned |-> 0]
    /\ UNCHANGED <<calls, results, log>>

DistributionStep ==
    /\ op.kind = "distribution"
    /\ IterYield
    /\ op' = DistributionBody(op, Head(buffer).value)
    /\ UNCHANGED <<calls, results, log>>

\* counts.map((count, i) => ({range, count, percentage}))
Bucket(o, i) ==
    LET rangeStart == FAdd(o.min, FMul(OfInt(i), o.bucketSize))
        rangeEnd   == FAdd(o.min, FMul(OfInt(i + 1), o.bucketSize))
    IN  [range |-> ToFixed1(rangeStart) \o <<"-">> \o ToFixed1(rangeEnd),
         count |-> o.counts[i + 1],
         percentage |-> IF o.total > 0
                        THEN FMul(FDiv(OfInt(o.counts[i + 1]), OfInt(o.total)),
                                  OfInt(100))
                        ELSE Zero]

DistributionReturn ==
    /\ op.kind = "distribution"
    /\ IterDone
    /\ results' = Append(results,
                         [kind |-> "distribution", call |-> op.call,
                          statsResult |-> op.statsResult,
                          buckets |-> [k \in 1..Len(op.counts) |-> Bucket(op, k - 1)],
                          total |-> op.total,
                          scanned |-> op.scanned])
    /\ op' = NoOp
    /\ UNCHANGED <<calls, log>>

DistributionCall(f, options) ==
    [kind |-> "distribution", file |-> f, options |-> options]

(***************************************************************************)
(* The accumulators of aggregators.ts                                      *)
(***************************************************************************)
StarText == <<"*">>

createAccumulator ==
    [count |-> 0, sum |-> Zero, min |-> PosInfinity, max |-> NegInfinity,
     conditionCount |-> 0]

\* extractPathWithSide: the first value of the path on the selected side
extractPathWithSide(path, left, right) ==
    IF StartsWith(path, SidePrefixA) THEN getValueAtPath(left, Slice2(path))
    ELSE IF StartsWith(path, SidePrefixB) THEN getValueAtPath(right, Slice2(path))
    ELSE getValueAtPath(left, path)

\* case 'SUM', 'AVG', 'MIN', 'MAX': the loop over the values
RECURSIVE AccumulateNumbers(_, _)
AccumulateNumbers(acc, values) ==
    IF values = <<>> THEN acc
    ELSE IF IsNumberValue(Head(values))
         THEN LET v == OfLiteral(Head(values).n)
              IN  AccumulateNumbers([acc EXCEPT !.count = @ + 1,
                                                !.sum = FAdd(@, v),
                                                !.min = MathMin(@, v),
                                                !.max = MathMax(@, v)],
                                    Tail(values))
    ELSE AccumulateNumbers(acc, Tail(values))

\* value === true || (typeof value === 'number' && value > 0)
CountsAsTrue(v) == v = Bool(TRUE) \/ (IsNum(v) /\ v.n > 0)

\* case 'COUNT_IF': the loop over the values
CountIf(values) == Cardinality({i \in 1..Len(values) : CountsAsTrue(values[i])})

accumulateValue(acc, parsed, left, right) ==
    CASE parsed.func = "COUNT" ->
           IF parsed.arg = StarText THEN [acc EXCEPT !.count = @ + 1]
           ELSE LET value == extractPathWithSide(parsed.arg, left, right)
                IN  IF value # Undefined /\ value # Null
                    THEN [acc EXCEPT !.count = @ + 1]
                    ELSE acc
      [] parsed.func \in {"SUM", "AVG", "MIN", "MAX"} ->
           AccumulateNumbers(acc, extractPathValuesWithSide(parsed.arg, left, right))
      [] parsed.func = "COUNT_IF" ->
           [acc EXCEPT !.conditionCount =
                           @ + CountIf(extractPathValuesWithSide(parsed.arg, left, right)),
                       !.count = @ + 1]

finalizeAggregate(acc, parsed) ==
    CASE parsed.func = "COUNT" -> OfInt(acc.count)
      [] parsed.func = "SUM" -> acc.sum
      [] parsed.func = "AVG" ->
           IF acc.count > 0 THEN FDiv(acc.sum, OfInt(acc.count)) ELSE Zero
      [] parsed.func = "MIN" -> IF acc.count > 0 THEN acc.min ELSE Zero
      [] parsed.func = "MAX" -> IF acc.count > 0 THEN acc.max ELSE Zero
      [] parsed.func = "COUNT_IF" -> OfInt(acc.conditionCount)
      [] OTHER -> Zero

\* a caller of the accumulators: one accumulator, accumulateValue once per
\* element, then finalizeAggregate
AccumulateStart ==
    /\ Callable
    /\ calls # <<>>
    /\ Head(calls).kind = "aggregate"
    /\ op' = [kind |-> "aggregate", call |-> Head(calls),
              acc |-> createAccumulator, rest |-> Head(calls).file]
    /\ calls' = Tail(calls)
    /\ UNCHANGED <<streamVars, results, log>>

AccumulateStep ==
    /\ op.kind = "aggregate"
    /\ op.rest # <<>>
    /\ op' = [op EXCEPT !.acc = accumulateValue(@, op.call.parsed,
                                                Head(op.rest), Undefined),
                        !.rest = Tail(@)]
    /\ UNCHANGED <<streamVars, calls, results, log>>

FinalizeStep ==
    /\ op.kind = "aggregate"
    /\ op.rest = <<>>
    /\ results' = Append(results, [kind |-> "aggregate", call |-> op.call,
                                   acc |-> op.acc,
                                   value |-> finalizeAggregate(op.acc, op.call.parsed)])
    /\ op' = NoOp
    /\ UNCHANGED <<streamVars, calls, log>>

AggregateCall(f, parsed) ==
    [kind |-> "aggregate", file |-> f, parsed |-> parsed, options |-> NoOptions]

(***************************************************************************)
(* SpecAggregate: the operations of aggregate.ts, each called with drawn   *)
(* options and, when its filter does not parse, called again without it    *)
(***************************************************************************)
MaxBuckets == 2

kConstructor == <<"c", "o", "n", "s", "t", "r", "u", "c", "t", "o", "r">>

\* {id: "constructor", lv: 0.1, tg: [1, 2]}
AggA == Obj(<< <<kId, Str(kConstructor)>>, <<kLv, Num(1)>>,
               <<kTags, Arr(<<Num(10), Num(20)>>)>> >>)
\* {id: "pa", lv: null, tg: [null]}
AggB == Obj(<< <<kId, Str(<<"p", "a">>)>>, <<kLv, Null>>,
               <<kTags, Arr(<<Null>>)>> >>)

AggregateFiles == SeqsUpTo({AggA, AggB}, MaxFileLen)

\* path: "lv", "tg[*]", "id"
AggregatePaths == {kLv, kTags \o <<"[", "*", "]">>, kId}

AggregateOptions == FilterChoices(NoOptions)

PathChoices(o) == {With(o, "path", p) : p \in AggregatePaths}

BucketChoices(o) == {o} \cup {With(o, "buckets", n) : n \in 0..MaxBuckets}

PathOptions == UNION {PathChoices(o) : o \in AggregateOptions}

AggregateFunctions == {"COUNT", "SUM", "AVG", "MIN", "MAX", "COUNT_IF"}

ParsedAggregates ==
    {[alias |-> <<"x">>, func |-> fn, arg |-> a] :
        fn \in AggregateFunctions, a \in AggregatePaths \cup {StarText}}

AggregateCalls ==
    {CountCall(f, o) : f \in AggregateFiles, o \in AggregateOptions}
      \cup {GroupByCall(f, o) : f \in AggregateFiles, o \in PathOptions}
      \cup {StatsCall(f, o) : f \in AggregateFiles, o \in PathOptions}
      \cup {DistributionCall(f, o) :
               f \in AggregateFiles, o \in UNION {BucketChoices(q) : q \in PathOptions}}
      \cup {AggregateCall(f, a) : f \in AggregateFiles, a \in ParsedAggregates}

IsInvalidFilter(options) ==
    Truthy(options, "filter") /\ parseFilter(options.filter) = NoCondition

InitAggregate ==
    /\ InitHarness
    /\ \E c \in AggregateCalls :
          calls = IF IsInvalidFilter(c.options)
                  THEN <<c, [c EXCEPT !.options = Without(@, "filter")]>>
                  ELSE <<c>>

NextAggregate ==
    \/ CountStart
    \/ GroupByStart
    \/ StatsStart
    \/ OnData
    \/ OnEnd
    \/ OnError
    \/ NextWait
    \/ CountStep
    \/ CountReturn
    \/ GroupByStep
    \/ GroupByReturn
    \/ StatsStep
    \/ StatsReturn
    \/ DistributionEmpty
    \/ DistributionSecondPass
    \/ DistributionStep
    \/ DistributionReturn
    \/ AccumulateStart
    \/ AccumulateStep
    \/ FinalizeStep
    \/ OpReject

SpecAggregate == InitAggregate /\ [][NextAggregate]_vars

\* what an operation returned, without the record of how it was called
Payload(r) == Without(r, "call")

SameCallWithoutFilter(r, q) ==
    /\ q.call.kind = r.call.kind
    /\ q.call = [r.call EXCEPT !.options = Without(r.call.options, "filter")]

Warned(filter) ==
    \E k \in 1..Len(log) : log[k].level = "warn" /\ log[k].filter = filter

\* C10: an operation whose filter text does not parse does not fail, returns
\* what the same call without a filter returns, and has logged a warning that
\* names the invalid filter.
C10_InvalidFilterPolicy ==
    \A i \in DOMAIN results :
        LET r == results[i]
        IN  IsInvalidFilter(r.call.options)
            => /\ r.kind = "rejected" => r.error = ParseError
               /\ r.kind # "rejected" => Warned(r.call.options.filter)
               /\ \A j \in DOMAIN results :
                     (/\ r.kind # "rejected"
                      /\ results[j].kind # "rejected"
                      /\ SameCallWithoutFilter(r, results[j]))
                     => Payload(results[j]) = Payload(r)

AggregateResults(kind) == {i \in DOMAIN results : results[i].kind = kind}

\* the values the path yields on the elements of a file that pass the filter
RECURSIVE ValuesOfPassing(_, _, _)
ValuesOfPassing(f, condition, path) ==
    IF f = <<>> THEN <<>>
    ELSE (IF condition # NoCondition /\ ~matchesFilter(Head(f), condition)
          THEN <<>>
          ELSE getValuesAtPath(Head(f), path))
           \o ValuesOfPassing(Tail(f), condition, path)

ValuesOfCall(c) == ValuesOfPassing(c.file, ConditionOf(c.options), c.options.path)

KeyCount(values, key) ==
    Cardinality({i \in 1..Len(values) : GroupKey(values[i]) = key})

\* C17: groupBy counts every value that the path yields on a passing element
\* under the string form of the value (null under "null"), one increment per
\* value; total is the number of values counted and the sum of the counters,
\* uniqueValues the number of distinct keys, scanned the number of elements.
C17_GroupByCounts ==
    \A i \in AggregateResults("groupBy") :
        LET r == results[i]
            values == ValuesOfCall(r.call)
            keys == {GroupKey(values[k]) : k \in 1..Len(values)}
        IN  /\ \A key \in keys :
                  /\ HasKey(r.groups, key)
                  /\ GetKey(r.groups, key) = Num(KeyCount(values, key) * Scale)
            /\ \A g \in 1..Len(r.groups) : r.groups[g][1] \in keys
            /\ r.total = Len(values)
            /\ r.uniqueValues = Cardinality(keys)
            /\ r.scanned = Len(r.call.file)

\* the numbers among a list of values, as the aggregation reads them
RECURSIVE NumbersOf(_)
NumbersOf(values) ==
    IF values = <<>> THEN <<>>
    ELSE (IF IsNumberValue(Head(values)) THEN <<OfLiteral(Head(values).n)>> ELSE <<>>)
           \o NumbersOf(Tail(values))

\* the running sum of a list of numbers, added in order
RECURSIVE SumOf(_)
SumOf(numbers) ==
    IF numbers = <<>> THEN Zero
    ELSE FAdd(SumOf(SubSeq(numbers, 1, Len(numbers) - 1)), numbers[Len(numbers)])

\* the statistics of a pass at any point of it: count, sum, min and max
\* describe the numbers of the elements read so far, and the average lies
\* between the minimum and the maximum
StatsInvariant(o, read) ==
    LET numbers == NumbersOf(ValuesOfPassing(read, o.filterCondition,
                                             o.call.options.path))
        st == StatsResult(o)
    IN  /\ o.count = Len(numbers)
        /\ o.count > 0 =>
              /\ st.sum = SumOf(numbers)
              /\ \E k \in 1..Len(numbers) : st.min = numbers[k]
              /\ \E k \in 1..Len(numbers) : st.max = numbers[k]
              /\ \A k \in 1..Len(numbers) :
                    FLessEq(st.min, numbers[k]) /\ FLessEq(numbers[k], st.max)
              /\ FLessEq(st.min, st.avg)
              /\ FLessEq(st.avg, st.max)

\* C15: whenever stats has counted at least one number, after every element it
\* has processed, sum is the sum of the counted numbers, min and max are the
\* smallest and the largest of them, and min <= avg <= max.
C15_StatsBounds ==
    (op.kind = "stats" /\ pc \in {"idle", "waiting", "woken"})
        => StatsInvariant(op, [k \in 1..Len(yielded) |-> yielded[k].value])

IsZeroStats(st) ==
    st.sum = Zero /\ st.avg = Zero /\ st.min = Zero /\ st.max = Zero

\* C16: when no element contributes a number (count = 0), stats returns
\* sum, avg, min and max 0, distribution returns no bucket and total 0, and
\* finalizeAggregate returns 0 for AVG, MIN and MAX: never NaN or an infinity.
C16_ZeroCount ==
    /\ \A i \in AggregateResults("stats") :
          results[i].count = 0 => IsZeroStats(results[i])
    /\ \A i \in AggregateResults("distribution") :
          results[i].statsResult.count = 0
              => /\ IsZeroStats(results[i].statsResult)
                 /\ results[i].buckets = <<>>
                 /\ results[i].total = 0
    /\ \A i \in AggregateResults("aggregate") :
          (results[i].acc.count = 0
             /\ results[i].call.parsed.func \in {"AVG", "MIN", "MAX"})
              => results[i].value = Zero

\* distribution has read several elements, none of which has a number at the
\* path
C16_Witness ==
    \E i \in AggregateResults("distribution") :
        /\ results[i].statsResult.count = 0
        /\ results[i].scanned >= 2
        /\ results[i].buckets = <<>>

RECURSIVE SumOfCounts(_)
SumOfCounts(buckets) ==
    IF buckets = <<>> THEN 0 ELSE Head(buckets).count + SumOfCounts(Tail(buckets))

\* C14: the bucket counts of distribution sum to its total, which is the count
\* that stats gives for the same file, path and filter: every number is
\* counted in exactly one bucket, whose index is in [0, bucketCount - 1].
C14_BucketsSumToCount ==
    \A i \in AggregateResults("distribution") :
        LET r == results[i]
            numbers == NumbersOf(ValuesOfCall(r.call))
        IN  /\ r.statsResult.count = Len(numbers)
            /\ r.total = r.statsResult.count
            /\ SumOfCounts(r.buckets) = r.total
            /\ r.total > 0 => Len(r.buckets) = BucketCountOf(r.call.options)

(***************************************************************************)
(* SpecOps: one call of any of the operations that consume the stream      *)
(***************************************************************************)
OpsCalls ==
    AggregateCalls
      \cup {QueryCall(f, o) : f \in AggregateFiles, o \in AggregateOptions}
      \cup {JoinCall(l, r, JoinKeys) : l \in LeftFiles, r \in RightFiles}

InitOps ==
    /\ InitHarness
    /\ \E c \in OpsCalls : calls = <<c>>

NextOps ==
    \/ CountStart
    \/ GroupByStart
    \/ StatsStart
    \/ QueryStart
    \/ JoinStart
    \/ AccumulateStart
    \/ OnData
    \/ OnEnd
    \/ OnError
    \/ NextWait
    \/ CountStep
    \/ CountReturn
    \/ GroupByStep
    \/ GroupByReturn
    \/ StatsStep
    \/ StatsReturn
    \/ DistributionEmpty
    \/ DistributionSecondPass
    \/ DistributionStep
    \/ DistributionReturn
    \/ QueryStep
    \/ QueryReturn
    \/ IndexStep
    \/ IndexDone
    \/ ProbeStep
    \/ JoinReturn
    \/ AccumulateStep
    \/ FinalizeStep
    \/ OpReject

SpecOps == InitOps /\ [][NextOps]_vars

Rejection(call, err) == [kind |-> "rejected", call |-> call, error |-> err]

\* C11: once the pipeline has emitted an error, the iterator yields no
\* further element and never reports completion, whatever is still buffered,
\* and the operation that consumes it returns nothing but a rejection that
\* carries the error: no totals and no items.
C11_ErrorRejects ==
    [][(error # NoError /\ error' # NoError)
          => /\ yielded' = yielded
             /\ pc' # "done"
             /\ op.kind # "none"
                  => \/ results' = results
                     \/ results' = Append(results, Rejection(op.call, error))]_vars

\* the error arrived after elements had been consumed and while produced
\* elements were still in the buffer, and the operation has rejected
C11_Witness ==
    /\ pc = "thrown"
    /\ error # NoError
    /\ buffer # <<>>
    /\ yielded # <<>>
    /\ results # <<>>
    /\ results[Len(results)].kind = "rejected"

ReadsOneFile(r) == r.call.kind \in {"count", "groupBy", "stats", "distribution",
                                    "executeQuery"}

\* C13: when the pipeline ends without any element the iteration completes
\* with no element and no error, and the operation returns its empty result:
\* count 0 of 0, executeQuery no items and zero totals, groupBy no groups,
\* stats count 0.
C13_EmptyStream ==
    /\ (file = <<>> /\ error = NoError) => (pc # "thrown" /\ yielded = <<>>)
    /\ \A i \in DOMAIN results :
          LET r == results[i]
          IN  (ReadsOneFile(r) /\ r.call.file = <<>>)
              => CASE r.kind = "rejected" -> r.error # NoError
                   [] r.kind = "count" -> r.total = 0 /\ r.scanned = 0
                   [] r.kind = "executeQuery" ->
                        r.items = <<>> /\ r.totalMatched = 0 /\ r.totalScanned = 0
                   [] r.kind = "groupBy" ->
                        r.groups = <<>> /\ r.total = 0 /\ r.uniqueValues = 0
                   [] r.kind = "stats" -> r.count = 0 /\ r.scanned = 0
                   [] r.kind = "distribution" -> r.buckets = <<>> /\ r.total = 0

\* groupBy has returned for a stream that ended without any element
C13_Witness ==
    \E i \in AggregateResults("groupBy") :
        /\ results[i].call.file = <<>>
        /\ pc = "done"
        /\ ended
        /\ emitted = 0

\* the path the files of the calls are read from
DataFilePath == <<"/", "d", "a", "t", "a", ".", "j", "s", "o", "n">>

\* String(err) as the commands print it: "Error: " and the message
ErrorText(err) == <<"E", "r", "r", "o", "r", ":", " ">> \o err.message

\* C12: the error that reaches the consumer of a stream whose JSON is
\* malformed, and that the operation rejects with, names the path of the file
\* that was being read.
C12_ErrorNamesFile ==
    \A i \in DOMAIN results :
        results[i].kind = "rejected"
            => Includes(ErrorText(results[i].error), DataFilePath)

(***************************************************************************)
(* SpecPath: getValuesAtPath applied to drawn values and paths             *)
(***************************************************************************)
kIn == <<"i", "n">>

\* {id: "pe", in: {id: null, lv: 3}, tg: [[1], "x"]}
EntE == Obj(<< <<kId, Str(<<"p", "e">>)>>,
               <<kIn, Obj(<< <<kId, Null>>, <<kLv, Num(30)>> >>)>>,
               <<kTags, Arr(<<Arr(<<Num(10)>>), Str(<<"x">>)>>)>> >>)

PathObjects ==
    {EntA, EntC, EntE, Null, Num(15), Str(<<"p", "a">>), Bool(TRUE),
     Arr(<<EntA, EntC>>), Arr(<<>>)}

PathTexts ==
    {<<"i", "d">>,
     <<"t", "g">>,
     <<"t", "g", "[", "*", "]">>,
     <<"t", "g", "[", "0", "]">>,
     <<"t", "g", "[", "5", "]">>,
     <<"t", "g", ".", "l", "e", "n", "g", "t", "h">>,
     <<"t", "g", ".", "0">>,
     <<"i", "d", ".", "x">>,
     <<"l", "v", "[", "0", "]">>,
     <<"z", "z">>,
     <<"z", "z", ".", "i", "d">>,
     <<"t", "g", "[", "*", "]", ".", "x">>,
     <<"i", "n", ".", "i", "d">>,
     <<"i", "n", "[", "*", "]">>,
     <<"c", "o", "n", "s", "t", "r", "u", "c", "t", "o", "r">>,
     <<"_", "_", "p", "r", "o", "t", "o", "_", "_", ".", "c", "o", "n", "s", "t", "r", "u", "c", "t", "o", "r">>,
     <<"t", "g", ".", "p", "u", "s", "h">>,
     <<>>}

PathCalls ==
    {[kind |-> "getValuesAtPath", obj |-> v, path |-> t] :
        v \in PathObjects, t \in PathTexts}

EvalGetValuesAtPath ==
    /\ calls # <<>>
    /\ Head(calls).kind = "getValuesAtPath"
    /\ LET c == Head(calls)
       IN  results' = Append(results,
                [kind |-> "getValuesAtPath", call |-> c,
                 segments |-> parsePath(c.path),
                 values |-> getValuesAtPath(c.obj, c.path)])
    /\ calls' = Tail(calls)
    /\ UNCHANGED <<streamVars, op, log>>

InitPath ==
    /\ InitHarness
    /\ \E c \in PathCalls : calls = <<c>>

NextPath == EvalGetValuesAtPath

SpecPath == InitPath /\ [][NextPath]_vars

\* what one item contributes for one segment according to the claim: a key
\* only on an object that has it, an index only inside an array
ContributionOf(item, seg) ==
    IF item = Null \/ item = Undefined THEN <<>>
    ELSE IF seg.type = "key"
         THEN IF IsObj(item) /\ HasKey(item.o, seg.key)
              THEN <<GetKey(item.o, seg.key)>> ELSE <<>>
    ELSE IF seg.type = "wildcard"
         THEN IF IsArr(item) THEN item.a
              ELSE IF IsObj(item) THEN ObjValues(item.o)
              ELSE <<>>
    ELSE IF IsArr(item) /\ seg.index < Len(item.a) THEN <<item.a[seg.index + 1]>>
    ELSE <<>>

RECURSIVE ContributionsOf(_, _)
ContributionsOf(current, seg) ==
    IF current = <<>> THEN <<>>
    ELSE ContributionOf(Head(current), seg) \o ContributionsOf(Tail(current), seg)

RECURSIVE ValuesBySegments(_, _)
ValuesBySegments(current, segs) ==
    IF segs = <<>> \/ current = <<>> THEN current
    ELSE ValuesBySegments(ContributionsOf(current, Head(segs)), Tail(segs))

\* C18: getValuesAtPath returns a list for every value and path; a key
\* segment contributes nothing on a value that is not an object or lacks the
\* key, an index segment nothing on a non-array or beyond the length, and the
\* result is empty as soon as a stage yields nothing.
C18_PathTotal ==
    \A i \in DOMAIN results :
        results[i].kind = "getValuesAtPath"
            => results[i].values
                 = ValuesBySegments(<<results[i].call.obj>>, results[i].segments)

(***************************************************************************)
(* Schema extraction: detectPattern, mergeSchemas, extractSchema           *)
(*                                                                         *)
(* SchemaNodes are JavaScript objects that the extractor shares and        *)
(* mutates in place (a frame's schema is also its parent's property or     *)
(* items), so they live in a heap: a sequence of objects addressed by      *)
(* position.  A SchemaNode is a record carrying only the fields that are   *)
(* set; `properties`, `items`, `arrayLength` and `examples` hold addresses *)
(***************************************************************************)
LowerLetters ==
    {"a", "b", "c", "d", "e", "f", "g", "h", "i", "j", "k", "l", "m", "n", "o",
     "p", "q", "r", "s", "t", "u", "v", "w", "x", "y", "z"}
UpperLetters ==
    {"A", "B", "C", "D", "E", "F", "G", "H", "I", "J", "K", "L", "M", "N", "O",
     "P", "Q", "R", "S", "T", "U", "V", "W", "X", "Y", "Z"}
Letters == LowerLetters \cup UpperLetters
HexDigits == Digits \cup {"a", "b", "c", "d", "e", "f", "A", "B", "C", "D", "E", "F"}

AllIn(s, a, b, S) == \A i \in a..b : s[i] \in S

\* /^[A-Za-z]+:[A-Za-z0-9]+$/
ENTITY_ID_PATTERN(value) ==
    LET c == RunEnd(value, 1, Letters)
    IN  /\ c >= 1
        /\ c + 2 <= Len(value)
        /\ value[c + 1] = ":"
        /\ AllIn(value, c + 2, Len(value), Letters \cup Digits)

\* /^\d{4}-\d{2}-\d{2}(T\d{2}:\d{2}:\d{2})?/ : the group is optional and the
\* expression is not anchored at the end, so the date prefix decides
DATE_PATTERN(value) ==
    /\ Len(value) >= 10
    /\ AllIn(value, 1, 4, Digits) /\ value[5] = "-"
    /\ AllIn(value, 6, 7, Digits) /\ value[8] = "-"
    /\ AllIn(value, 9, 10, Digits)

\* /^[0-9a-fA-F]{8}-[0-9a-fA-F]{4}-[0-9a-fA-F]{4}-[0-9a-fA-F]{4}-[0-9a-fA-F]{12}$/
GUID_PATTERN(value) ==
    /\ Len(value) = 36
    /\ AllIn(value, 1, 8, HexDigits) /\ value[9] = "-"
    /\ AllIn(value, 10, 13, HexDigits) /\ value[14] = "-"
    /\ AllIn(value, 15, 18, HexDigits) /\ value[19] = "-"
    /\ AllIn(value, 20, 23, HexDigits) /\ value[24] = "-"
    /\ AllIn(value, 25, 36, HexDigits)

\* the pattern of a string value, or the empty sequence for `undefined`
detectPattern(value) ==
    IF ENTITY_ID_PATTERN(value)
    THEN SubSeq(value, 1, RunEnd(value, 1, Letters)) \o <<":", "x", "x", "x">>
    ELSE IF DATE_PATTERN(value) THEN <<"I", "S", "O", " ", "d", "a", "t", "e">>
    ELSE IF GUID_PATTERN(value) THEN <<"G", "U", "I", "D">>
    ELSE <<>>

\* a new object on the heap; its address is the new length of the heap
Alloc(h, obj) == Append(h, obj)

\* for (const ex of incoming.examples)
\*     if (!merged.examples.includes(ex) && merged.examples.length < 3) push
RECURSIVE PushExamples(_, _)
PushExamples(list, incoming) ==
    IF incoming = <<>> THEN list
    ELSE IF ~ArrIncludes(list, Head(incoming)) /\ Len(list) < 3
    THEN PushExamples(Append(list, Head(incoming)), Tail(incoming))
    ELSE PushExamples(list, Tail(incoming))

RECURSIVE mergeSchemas(_, _, _)
RECURSIVE MergeProperties(_, _, _)

\* the loop over Object.entries(incoming.properties): p is the address of
\* merged.properties
MergeProperties(h, p, entries) ==
    IF entries = <<>> THEN h
    ELSE LET key == Head(entries)[1]
             value == Head(entries)[2]
         IN  IF HasKey(h[p].entries, key)
             THEN LET r == mergeSchemas(h, GetKey(h[p].entries, key), value)
                  IN  MergeProperties(
                          [r.heap EXCEPT ![p].entries = SetKey(@, key, r.ref)],
                          p, Tail(entries))
             ELSE LET h1 == Alloc(h, With(h[value], "optional", TRUE))
                  IN  MergeProperties(
                          [h1 EXCEPT ![p].entries = SetKey(@, key, Len(h1))],
                          p, Tail(entries))

\* if (existing.type === 'object' && incoming.type === 'object'): s is the
\* heap and the merged node under construction
MergeObject(s, e, inc) ==
    IF e.type # "object" THEN s
    ELSE LET own == IF Has(e, "properties") THEN s.heap[e.properties].entries ELSE <<>>
             h1 == Alloc(s.heap, [entries |-> own])
             p == Len(h1)
             h2 == IF Has(inc, "properties")
                   THEN MergeProperties(h1, p, h1[inc.properties].entries)
                   ELSE h1
         IN  [heap |-> h2, merged |-> With(s.merged, "properties", p)]

\* if (existing.type === 'array' && incoming.type === 'array')
MergeArray(s, e, inc) ==
    IF e.type # "array" THEN s
    ELSE LET s1 == IF Has(inc, "items") /\ Has(e, "items")
                   THEN LET r == mergeSchemas(s.heap, e.items, inc.items)
                        IN  [heap |-> r.heap, merged |-> With(s.merged, "items", r.ref)]
                   ELSE IF Has(inc, "items")
                   THEN [s EXCEPT !.merged = With(@, "items", inc.items)]
                   ELSE s
         IN  IF Has(inc, "arrayLength") /\ Has(e, "arrayLength")
             THEN LET a == s1.heap[e.arrayLength]
                      b == s1.heap[inc.arrayLength]
                      h1 == Alloc(s1.heap, [min |-> Min2(a.min, b.min),
                                            max |-> Max2(a.max, b.max)])
                  IN  [heap |-> h1, merged |-> With(s1.merged, "arrayLength", Len(h1))]
             ELSE IF Has(inc, "arrayLength")
             THEN [s1 EXCEPT !.merged = With(@, "arrayLength", inc.arrayLength)]
             ELSE s1

\* if (existing.type === 'string' && incoming.type === 'string'): the
\* examples array of `merged` is the one of `existing` when it has one
MergeString(s, e, inc) ==
    IF e.type # "string" THEN s
    ELSE LET s1 == IF Truthy(inc, "pattern") /\ ~Truthy(e, "pattern")
                   THEN [s EXCEPT !.merged = With(@, "pattern", inc.pattern)]
                   ELSE s
         IN  IF ~Has(inc, "examples") THEN s1
             ELSE LET s2 == IF Has(s1.merged, "examples") THEN s1
                            ELSE LET h1 == Alloc(s1.heap, [list |-> <<>>])
                                 IN  [heap |-> h1,
                                      merged |-> With(s1.merged, "examples", Len(h1))]
                      x == s2.merged.examples
                  IN  [s2 EXCEPT !.heap[x].list =
                                     PushExamples(@, s2.heap[inc.examples].list)]

\* mergeSchemas(existing, incoming) on addresses: the heap after the call and
\* the address of the node it returns
mergeSchemas(h, existing, incoming) ==
    IF h[existing].type # h[incoming].type
    THEN [heap |-> h, ref |-> existing]
    ELSE LET e == h[existing]
             inc == h[incoming]
             s0 == [heap |-> h,
                    merged |-> IF Truthy(inc, "$type") /\ ~Truthy(e, "$type")
                               THEN With(e, "$type", inc["$type"])
                               ELSE e]
             s3 == MergeString(MergeArray(MergeObject(s0, e, inc), e, inc), e, inc)
             h4 == Alloc(s3.heap, s3.merged)
         IN  [heap |-> h4, ref |-> Len(h4)]

\* createValueSchema(tokenName, value): the heap with the new node, and its
\* address
createValueSchema(h, tokenName, value, detectPatterns) ==
    IF tokenName = "stringValue"
    THEN IF ~detectPatterns
         THEN [heap |-> Alloc(h, [type |-> "string"]), ref |-> Len(h) + 1]
         ELSE IF detectPattern(value) # <<>>
         THEN [heap |-> Alloc(h, [type |-> "string", pattern |-> detectPattern(value)]),
               ref |-> Len(h) + 1]
         ELSE IF Len(value) <= 50
         THEN [heap |-> Alloc(Alloc(h, [list |-> <<value>>]),
                              [type |-> "string", examples |-> Len(h) + 1]),
               ref |-> Len(h) + 2]
         ELSE [heap |-> Alloc(h, [type |-> "string"]), ref |-> Len(h) + 1]
    ELSE IF tokenName = "numberValue"
    THEN [heap |-> Alloc(h, [type |-> "number"]), ref |-> Len(h) + 1]
    ELSE IF tokenName \in {"trueValue", "falseValue"}
    THEN [heap |-> Alloc(h, [type |-> "boolean"]), ref |-> Len(h) + 1]
    ELSE IF tokenName = "nullValue"
    THEN [heap |-> Alloc(h, [type |-> "null"]), ref |-> Len(h) + 1]
    ELSE [heap |-> Alloc(h, [type |-> "string"]), ref |-> Len(h) + 1]

\* the message of the TypeError that reading or writing a property of
\* `undefined` raises
TypeError(verb, key) ==
    [t |-> "error", name |-> <<"T", "y", "p", "e", "E", "r", "r", "o", "r">>,
     message |-> <<"C", "a", "n", "n", "o", "t", " ">> \o verb
                   \o <<" ", "p", "r", "o", "p", "e", "r", "t", "i", "e", "s", " ",
                        "o", "f", " ", "u", "n", "d", "e", "f", "i", "n", "e", "d">>
                   \o <<" ", "(">> \o verb \o <<"i", "n", "g", " ", "'">> \o key
                   \o <<"'", ")">>]

ReadText == <<"r", "e", "a", "d">>
SetText  == <<"s", "e", "t">>

\* a StackFrame; `key` is Undefined or a Str
Frame(type, key, schema, depth, arrayIndex) ==
    [type |-> type, key |-> key, schema |-> schema, depth |-> depth,
     arrayIndex |-> arrayIndex]

\* f.key ?? `[${f.arrayIndex}]`
FramePathPart(f) ==
    IF f.key = Undefined THEN <<"[">> \o NatToStr(f.arrayIndex) \o <<"]">>
    ELSE f.key.s

\* stack.map(...).join('.')
RECURSIVE getCurrentPath(_)
getCurrentPath(stack) ==
    IF stack = <<>> THEN <<>>
    ELSE IF Len(stack) = 1 THEN FramePathPart(stack[1])
    ELSE getCurrentPath(SubSeq(stack, 1, Len(stack) - 1))
           \o <<".">> \o FramePathPart(stack[Len(stack)])

\* samplesPerPath.get(path) ?? 0
SampleCount(o) ==
    IF HasKey(o.samplesPerPath, getCurrentPath(o.stack))
    THEN GetKey(o.samplesPerPath, getCurrentPath(o.stack))
    ELSE 0

\* shouldSample(): its result, and the extractor after a call that returned
\* true
shouldSample(o) == SampleCount(o) < o.maxSamples

Sampled(o) ==
    [o EXCEPT !.samplesPerPath = SetKey(@, getCurrentPath(o.stack), SampleCount(o) + 1)]

getCurrentDepth(o) == Len(o.stack)

\* `currentKey` as a condition: a key was read and it is not the empty string
KeyTruthy(k) == k # Undefined /\ k.s # <<>>

TopFrame(o) == o.stack[Len(o.stack)]

Raise(o, err) == [o EXCEPT !.raised = err]

Push(o, f) == [o EXCEPT !.stack = Append(@, f)]

\* frame.schema.properties![key] = schema, for the frame on top of the stack
SetProperty(o, key, schema) ==
    LET node == o.heap[TopFrame(o).schema]
    IN  IF ~Has(node, "properties") THEN Raise(o, TypeError(SetText, key))
        ELSE [o EXCEPT !.heap[node.properties].entries = SetKey(@, key, schema)]

\* if (!frame.schema.items) frame.schema.items = schema
\* else frame.schema.items = mergeSchemas(frame.schema.items, schema)
SetOrMergeItems(o, schema) ==
    LET a == TopFrame(o).schema
    IN  IF ~Has(o.heap[a], "items")
        THEN [o EXCEPT !.heap[a] = With(@, "items", schema)]
        ELSE LET r == mergeSchemas(o.heap, o.heap[a].items, schema)
             IN  [o EXCEPT !.heap = [r.heap EXCEPT ![a] = With(@, "items", r.ref)]]

\* frame.arrayIndex++ for the frame on top of the stack
NextIndex(o) == [o EXCEPT !.stack[Len(o.stack)].arrayIndex = @ + 1]

\* the frame below the new top: the frame that was on top before the push
NextParentIndex(o) == [o EXCEPT !.stack[Len(o.stack) - 1].arrayIndex = @ + 1]

\* case 'startObject'
StartObject(o) ==
    LET h1 == Alloc(o.heap, [entries |-> <<>>])
        h2 == Alloc(h1, [type |-> "object", properties |-> Len(h1)])
        schema == Len(h2)
        o1 == [o EXCEPT !.heap = h2]
    IN  IF o.stack = <<>>
        THEN Push([o1 EXCEPT !.rootSchema = schema],
                  Frame("object", Undefined, schema, 0, 0))
        ELSE IF getCurrentDepth(o) < o.maxDepth /\ shouldSample(o)
        THEN LET o2 == Sampled(o1)
                 frame == TopFrame(o)
             IN  IF frame.type = "object" /\ KeyTruthy(o.currentKey)
                 THEN LET o3 == SetProperty(o2, o.currentKey.s, schema)
                      IN  IF o3.raised # NoError THEN o3
                          ELSE [Push(o3, Frame("object", o.currentKey, schema,
                                               getCurrentDepth(o), 0))
                                  EXCEPT !.currentKey = Undefined]
                 ELSE IF frame.type = "array"
                 THEN NextParentIndex(
                          Push(SetOrMergeItems(o2, schema),
                               Frame("object", Undefined, schema,
                                     getCurrentDepth(o), frame.arrayIndex)))
                 ELSE o2
        ELSE LET h3 == Alloc(h2, [type |-> "object"])
             IN  Push([o1 EXCEPT !.heap = h3],
                      Frame("object", Undefined, Len(h3), getCurrentDepth(o), 0))

\* case 'endObject'
EndObject(o) ==
    [o EXCEPT !.stack = IF @ = <<>> THEN @ ELSE SubSeq(@, 1, Len(@) - 1)]

\* case 'startArray'
StartArray(o) ==
    LET h1 == Alloc(o.heap, [min |-> 0, max |-> 0])
        h2 == Alloc(h1, [type |-> "array", arrayLength |-> Len(h1)])
        schema == Len(h2)
        o1 == [o EXCEPT !.heap = h2]
    IN  IF o.stack = <<>>
        THEN Push([o1 EXCEPT !.rootSchema = schema],
                  Frame("array", Undefined, schema, 0, 0))
        ELSE IF getCurrentDepth(o) < o.maxDepth
        THEN LET frame == TopFrame(o)
             IN  IF frame.type = "object" /\ KeyTruthy(o.currentKey)
                 THEN LET o3 == SetProperty(o1, o.currentKey.s, schema)
                      IN  IF o3.raised # NoError THEN o3
                          ELSE [Push(o3, Frame("array", o.currentKey, schema,
                                               getCurrentDepth(o), 0))
                                  EXCEPT !.currentKey = Undefined]
                 ELSE IF frame.type = "array"
                 THEN NextParentIndex(
                          Push(IF Has(o1.heap[frame.schema], "items") THEN o1
                               ELSE [o1 EXCEPT !.heap[frame.schema] = With(@, "items", schema)],
                               Frame("array", Undefined, schema,
                                     getCurrentDepth(o), frame.arrayIndex)))
                 ELSE o1
        ELSE LET h3 == Alloc(h2, [type |-> "array"])
             IN  Push([o1 EXCEPT !.heap = h3],
                      Frame("array", Undefined, Len(h3), getCurrentDepth(o), 0))

\* parentItems.arrayLength.min = Math.min(...); .max = Math.max(...)
WidenParentItems(o, lengthOfFrame) ==
    IF o.stack = <<>> \/ TopFrame(o).type # "array"
         \/ ~Has(o.heap[TopFrame(o).schema], "items")
    THEN o
    ELSE LET parentItems == o.heap[o.heap[TopFrame(o).schema].items]
         IN  IF parentItems.type # "array" \/ ~Has(parentItems, "arrayLength") THEN o
             ELSE LET c == parentItems.arrayLength
                      o1 == [o EXCEPT !.heap[c].min = Min2(@, o.heap[lengthOfFrame].min)]
                  IN  [o1 EXCEPT !.heap[c].max = Max2(@, o1.heap[lengthOfFrame].max)]

\* case 'endArray'
EndArray(o) ==
    IF o.stack = <<>> THEN o
    ELSE LET frame == TopFrame(o)
             o1 == EndObject(o)
         IN  IF ~Has(o.heap[frame.schema], "arrayLength") THEN o1
             ELSE LET c == o.heap[frame.schema].arrayLength
                      o2 == [o1 EXCEPT !.heap[c].max = frame.arrayIndex]
                      o3 == [o2 EXCEPT !.heap[c].min =
                                Min2(IF @ # 0 THEN @ ELSE frame.arrayIndex,
                                     frame.arrayIndex)]
                  IN  WidenParentItems(o3, c)

\* case 'keyValue'
KeyValue(o, value) == [o EXCEPT !.currentKey = Str(value)]

DollarType == <<"$", "t", "y", "p", "e">>

\* the property of an object frame that a scalar token gives a value to
ScalarProperty(o, name, value) ==
    LET key == o.currentKey.s
        node == o.heap[TopFrame(o).schema]
    IN  IF key = DollarType /\ name = "stringValue"
        THEN [o EXCEPT !.heap[TopFrame(o).schema] = With(@, "$type", value)]
        ELSE LET v == createValueSchema(o.heap, name, value, o.detectPatterns)
                 o1 == [o EXCEPT !.heap = v.heap]
             IN  IF ~Has(node, "properties") THEN Raise(o1, TypeError(ReadText, key))
                 ELSE IF ~HasKey(o.heap[node.properties].entries, key)
                 THEN SetProperty(o1, key, v.ref)
                 ELSE LET r == mergeSchemas(v.heap,
                                            GetKey(o.heap[node.properties].entries, key),
                                            v.ref)
                      IN  SetProperty([o1 EXCEPT !.heap = r.heap], key, r.ref)

\* case 'stringValue', 'numberValue', 'trueValue', 'falseValue', 'nullValue'
ScalarValue(o, name, value) ==
    IF o.stack = <<>>
    THEN LET v == createValueSchema(o.heap, name, value, o.detectPatterns)
         IN  [o EXCEPT !.heap = v.heap, !.rootSchema = v.ref]
    ELSE IF TopFrame(o).type = "object" /\ KeyTruthy(o.currentKey)
    THEN LET o1 == IF getCurrentDepth(o) <= o.maxDepth
                   THEN ScalarProperty(o, name, value)
                   ELSE o
         IN  IF o1.raised # NoError THEN o1
             ELSE [o1 EXCEPT !.currentKey = Undefined]
    ELSE IF TopFrame(o).type = "array"
    THEN LET o1 == NextIndex(o)
         IN  IF getCurrentDepth(o1) <= o1.maxDepth /\ shouldSample(o1)
             THEN LET o2 == Sampled(o1)
                      v == createValueSchema(o2.heap, name, value, o2.detectPatterns)
                  IN  SetOrMergeItems([o2 EXCEPT !.heap = v.heap], v.ref)
             ELSE o1
    ELSE o

ScalarTokens == {"stringValue", "numberValue", "trueValue", "falseValue", "nullValue"}

\* the body of the `for await` loop: the switch on the name of the token;
\* the tokens of the parser that the switch has no case for change nothing
SchemaToken(o, token) ==
    CASE token.name = "startObject" -> StartObject(o)
      [] token.name = "endObject" -> EndObject(o)
      [] token.name = "startArray" -> StartArray(o)
      [] token.name = "endArray" -> EndArray(o)
      [] token.name = "keyValue" -> KeyValue(o, token.value)
      [] token.name \in ScalarTokens -> ScalarValue(o, token.name, token.value)
      [] OTHER -> o

\* the TokenEvents the parser stage emits for a value: every key, string and
\* number comes as start/chunk/end tokens followed by the packed token
Token(name) == [name |-> name]
TokenOf(name, value) == [name |-> name, value |-> value]

ChunkTokens(kind, chunk, text, packed) ==
    <<Token("start" \o kind)>>
      \o (IF text = <<>> THEN <<>> ELSE <<TokenOf(chunk, text)>>)
      \o <<Token("end" \o kind), TokenOf(packed, text)>>

RECURSIVE Tokens(_)
RECURSIVE MemberTokens(_)
RECURSIVE ElementTokens(_)
Tokens(v) ==
    CASE v.t = "obj" -> <<Token("startObject")>> \o MemberTokens(v.o) \o <<Token("endObject")>>
      [] v.t = "arr" -> <<Token("startArray")>> \o ElementTokens(v.a) \o <<Token("endArray")>>
      [] v.t = "str" -> ChunkTokens("String", "stringChunk", v.s, "stringValue")
      [] v.t = "num" -> ChunkTokens("Number", "numberChunk", NumToStr(v.n), "numberValue")
      [] v.t = "bool" -> <<TokenOf(IF v.b THEN "trueValue" ELSE "falseValue", v)>>
      [] v.t = "null" -> <<TokenOf("nullValue", v)>>
MemberTokens(o) ==
    IF o = <<>> THEN <<>>
    ELSE ChunkTokens("Key", "stringChunk", Head(o)[1], "keyValue")
           \o Tokens(Head(o)[2]) \o MemberTokens(Tail(o))
ElementTokens(a) ==
    IF a = <<>> THEN <<>> ELSE Tokens(Head(a)) \o ElementTokens(Tail(a))

\* the 'data' listener of createJsonTokenStream: the token itself is buffered
OnToken ==
    /\ op.kind = "extractSchema"
    /\ pc \in {"idle", "waiting", "woken"}
    /\ ~ended /\ error = NoError
    /\ emitted < Len(file)
    /\ emitted' = emitted + 1
    /\ buffer' = Append(buffer, file[emitted + 1])
    /\ Wake
    /\ UNCHANGED <<file, ended, error, yielded, op, calls, results, log>>

\* the SchemaNode at an address, with the objects it refers to in place of
\* their addresses
RECURSIVE SchemaAt(_, _)
SchemaAt(h, a) ==
    LET node == h[a]
    IN  [f \in DOMAIN node |->
            CASE f = "properties" ->
                   [i \in 1..Len(h[node[f]].entries) |->
                       <<h[node[f]].entries[i][1],
                         SchemaAt(h, h[node[f]].entries[i][2])>>]
              [] f = "items" -> SchemaAt(h, node[f])
              [] f = "arrayLength" -> h[node[f]]
              [] f = "examples" -> h[node[f]].list
              [] OTHER -> node[f]]

\* return rootSchema || { type: 'null' }
SchemaResult(o) ==
    IF o.rootSchema = 0 THEN [type |-> "null"] ELSE SchemaAt(o.heap, o.rootSchema)

DefaultMaxDepth == 10
DefaultMaxSamples == 5

\* the options runSchemaSummaryReport passes
SummaryOptions == [maxDepth |-> 3, maxSamples |-> 2]

SchemaOptionsOf(c) ==
    IF c.kind = "schemaSummary" THEN SummaryOptions ELSE c.options

\* extractSchema up to its loop, called directly or by the report
SchemaStart ==
    /\ Callable
    /\ calls # <<>>
    /\ Head(calls).kind \in {"extractSchema", "schemaSummary"}
    /\ LET c == Head(calls)
           options == SchemaOptionsOf(c)
       IN  /\ OpenStream(Tokens(c.doc))
           /\ op' = [kind |-> "extractSchema",
                     call |-> c,
                     maxDepth |-> OrDefault(options, "maxDepth", DefaultMaxDepth),
                     maxSamples |-> OrDefault(options, "maxSamples", DefaultMaxSamples),
                     detectPatterns |-> OrDefault(options, "detectPatterns", TRUE),
                     heap |-> <<>>,
                     stack |-> <<>>,
                     rootSchema |-> 0,
                     currentKey |-> Undefined,
                     samplesPerPath |-> <<>>,
                     raised |-> NoError]
    /\ calls' = Tail(calls)
    /\ UNCHANGED <<results, log>>

\* one iteration of the loop of extractSchema that runs to its `break`
SchemaStep ==
    /\ op.kind = "extractSchema"
    /\ IterYield
    /\ SchemaToken(op, Head(buffer)).raised = NoError
    /\ op' = SchemaToken(op, Head(buffer))
    /\ UNCHANGED <<calls, results, log>>

\* String(err)
StringOfError(err) ==
    (IF Has(err, "name") THEN err.name ELSE <<"E", "r", "r", "o", "r">>)
      \o <<":", " ">> \o err.message

\* the fileInfo the catch block of the report pushes
FailedFileInfo(call, err) ==
    [kind |-> "schemaSummary", call |-> call, error |-> StringOfError(err)]

\* what an exception inside extractSchema leads to: the promise rejects, and
\* the report, which awaits it inside `try`, records the file with an error
Thrown(call, err) ==
    IF call.kind = "schemaSummary" THEN FailedFileInfo(call, err)
    ELSE Rejection(call, err)

\* one iteration of the loop of extractSchema that raises
SchemaThrow ==
    /\ op.kind = "extractSchema"
    /\ IterYield
    /\ SchemaToken(op, Head(buffer)).raised # NoError
    /\ results' = Append(results, Thrown(op.call, SchemaToken(op, Head(buffer)).raised))
    /\ op' = NoOp
    /\ UNCHANGED <<calls, log>>

\* the stream raises: next() throws inside either loop
SchemaStreamThrow ==
    /\ op.kind \in {"extractSchema", "countEntities"}
    /\ IterThrow
    /\ results' = Append(results, Thrown(op.call, error))
    /\ op' = NoOp
    /\ UNCHANGED <<calls, log>>

\* extractSchema called directly: the loop ends and the schema is returned
SchemaReturn ==
    /\ op.kind = "extractSchema"
    /\ op.call.kind = "extractSchema"
    /\ IterDone
    /\ results' = Append(results, [kind |-> "extractSchema", call |-> op.call,
                                   schema |-> SchemaResult(op)])
    /\ op' = NoOp
    /\ UNCHANGED <<calls, log>>

kEntities == <<"e", "n", "t", "i", "t", "i", "e", "s">>

\* what pick({filter: 'entities'}) and streamArray() emit for a document
EntitiesOf(doc) ==
    IF IsObj(doc) /\ HasKey(doc.o, kEntities) /\ IsArr(GetKey(doc.o, kEntities))
    THEN GetKey(doc.o, kEntities).a
    ELSE <<>>

\* the report after `await extractSchema(...)`: the second stream is opened
SummaryCountStart ==
    /\ op.kind = "extractSchema"
    /\ op.call.kind = "schemaSummary"
    /\ AtEnd
    /\ OpenStream(EntitiesOf(op.call.doc))
    /\ op' = [kind |-> "countEntities", call |-> op.call,
              schema |-> SchemaResult(op), entityCount |-> 0]
    /\ UNCHANGED <<calls, results, log>>

\* the 'data' listener of the second stream
OnEntity == op.kind = "countEntities" /\ OnData

\* for await (const _ of stream) entityCount++
SummaryCountStep ==
    /\ op.kind = "countEntities"
    /\ IterYield
    /\ op' = [op EXCEPT !.entityCount = @ + 1]
    /\ UNCHANGED <<calls, results, log>>

\* fileInfos.push({name, sizeMB, entityCount, schemaYaml})
SummaryReturn ==
    /\ op.kind = "countEntities"
    /\ IterDone
    /\ results' = Append(results, [kind |-> "schemaSummary", call |-> op.call,
                                   entityCount |-> op.entityCount,
                                   schema |-> op.schema])
    /\ op' = NoOp
    /\ UNCHANGED <<calls, log>>

(***************************************************************************)
(* SpecSchema: extractSchema, alone or inside the schema-summary report,   *)
(* on one document                                                         *)
(***************************************************************************)
MaxEntities == 3

\* {"id": "p:1"}
ElemId == Obj(<< <<kId, Str(<<"p", ":", "1">>)>> >>)
\* {"id": "x", "lv": 2}
ElemIdLevel == Obj(<< <<kId, Str(<<"x">>)>>, <<kLv, Num(20)>> >>)
\* {"tg": [true], "in": {"lv": 2}}
ElemNested == Obj(<< <<kTags, Arr(<<Bool(TRUE)>>)>>,
                     <<kIn, Obj(<< <<kLv, Num(20)>> >>)>> >>)

SchemaElements == {ElemId, ElemIdLevel, ElemNested}

\* {"entities": [...]}
EntitiesDocument(es) == Obj(<< <<kEntities, Arr(es)>> >>)

EntityDocuments == {EntitiesDocument(es) : es \in SeqsUpTo(SchemaElements, MaxEntities)}

\* the documents extractSchema is called on directly: one entity fewer, as
\* the options of these calls sample one element
ShortDocuments ==
    {EntitiesDocument(es) : es \in SeqsUpTo(SchemaElements, MaxEntities - 1)}

\* documents whose root is an array, a scalar, or an array of arrays
OtherDocuments ==
    {Arr(es) : es \in SeqsUpTo({ElemId, ElemIdLevel}, 2)}
      \cup {Str(<<"x">>), Null,
            Arr(<<Arr(<<Num(10)>>), Arr(<<Num(10), Num(20)>>)>>),
            Arr(<<Str(<<"x">>), Str(<<"y">>), Str(<<"x">>)>>)}

SchemaOptions ==
    {NoOptions, [maxDepth |-> 2, maxSamples |-> 1],
     [maxSamples |-> 1, detectPatterns |-> FALSE]}

SchemaCall(doc, options) == [kind |-> "extractSchema", doc |-> doc, options |-> options]
SummaryCall(doc) == [kind |-> "schemaSummary", doc |-> doc]

SchemaCalls ==
    {SchemaCall(d, o) : d \in ShortDocuments \cup OtherDocuments, o \in SchemaOptions}
      \cup {SummaryCall(d) : d \in EntityDocuments}

InitSchema ==
    /\ InitHarness
    /\ \E c \in SchemaCalls : calls = <<c>>

NextSchema ==
    \/ SchemaStart
    \/ OnToken
    \/ OnEntity
    \/ OnEnd
    \/ OnError
    \/ NextWait
    \/ SchemaStep
    \/ SchemaThrow
    \/ SchemaStreamThrow
    \/ SchemaReturn
    \/ SummaryCountStart
    \/ SummaryCountStep
    \/ SummaryReturn

SpecSchema == InitSchema /\ [][NextSchema]_vars

SchemaResults(kind) == {i \in DOMAIN results : results[i].kind = kind}

\* C20: extractSchema completes with a SchemaNode for every well-formed
\* document: it is never the extractor that raises, and the schema-summary
\* report records an entityCount, the number of entities of the file, unless
\* the error it records is the one of the stream.
C20_ExtractSchemaTotal ==
    /\ \A i \in SchemaResults("rejected") : results[i].error = ParseError
    /\ \A i \in SchemaResults("schemaSummary") :
           IF Has(results[i], "entityCount")
           THEN results[i].entityCount = Len(EntitiesOf(results[i].call.doc))
           ELSE results[i].error = StringOfError(ParseError)

\* the elements of the entities array that shouldSample() admits: the first
\* maxSamples of them
SampledElements(call) ==
    LET es == EntitiesOf(call.doc)
    IN  SubSeq(es, 1, Min2(Len(es), OrDefault(call.options, "maxSamples",
                                              DefaultMaxSamples)))

ObservedKeys(es) == UNION {{es[i].o[j][1] : j \in DOMAIN es[i].o} : i \in DOMAIN es}

\* the item SchemaNode of the entities array of a schema
EntityItems(schema) == GetKey(schema.properties, kEntities).items

IsOptional(node) == Has(node, "optional") /\ node.optional

\* C19: the item SchemaNode that extractSchema returns for an array of
\* objects has a property for every key of every sampled element, also for
\* the keys that first appear in a later element, and a property is flagged
\* optional exactly when some sampled element lacks its key.
C19_MergedItemProperties ==
    \A i \in SchemaResults("extractSchema") :
        LET call == results[i].call
            es == SampledElements(call)
        IN  (IsObj(call.doc) /\ es # <<>>
               /\ OrDefault(call.options, "maxDepth", DefaultMaxDepth) >= 3)
              => LET props == EntityItems(results[i].schema).properties
                 IN  /\ {props[j][1] : j \in DOMAIN props} = ObservedKeys(es)
                     /\ \A j \in DOMAIN props :
                            IsOptional(props[j][2])
                              <=> \E k \in DOMAIN es : ~HasKey(es[k].o, props[j][1])

(***************************************************************************)
(* SpecProject: extractFields and extractJoinFields applied to drawn       *)
(* elements and select lists                                               *)
(***************************************************************************)
MaxSelect == 2

ProjectFields ==
    {kId, SidePrefixA \o kId, SidePrefixB \o kId, kIn \o <<".">> \o kLv,
     SidePrefixB \o kLv, kTags \o DotLength, kId \o <<".">>, ProtoKey}

ProjectSelects == SeqsUpTo(ProjectFields, MaxSelect) \ {<<>>}

ProjectObjects == {EntA, EntE}

ProjectCalls ==
    {[kind |-> "extractFields", obj |-> x, select |-> sel] :
        x \in ProjectObjects, sel \in ProjectSelects}
    \cup
    {[kind |-> "extractJoinFields", left |-> l, right |-> r, select |-> sel] :
        l \in ProjectObjects, r \in {EntB}, sel \in ProjectSelects}

\* extractFields(obj, select) of path-query.ts
EvalExtractFields ==
    /\ calls # <<>>
    /\ Head(calls).kind = "extractFields"
    /\ LET c == Head(calls)
       IN  results' = Append(results,
                [kind |-> "extractFields", call |-> c,
                 item |-> extractFields(c.obj, c.select)])
    /\ calls' = Tail(calls)
    /\ UNCHANGED <<streamVars, op, log>>

\* extractJoinFields(left, right, select) of join-engine.ts
EvalExtractJoinFields ==
    /\ calls # <<>>
    /\ Head(calls).kind = "extractJoinFields"
    /\ LET c == Head(calls)
       IN  results' = Append(results,
                [kind |-> "extractJoinFields", call |-> c,
                 item |-> extractJoinFields(c.left, c.right, c.select)])
    /\ calls' = Tail(calls)
    /\ UNCHANGED <<streamVars, op, log>>

InitProject ==
    /\ InitHarness
    /\ \E c \in ProjectCalls : calls = <<c>>

NextProject ==
    \/ EvalExtractFields
    \/ EvalExtractJoinFields

SpecProject == InitProject /\ [][NextProject]_vars

\* the text after the last "." of a field (the whole field without a ".")
AfterLastDot(field) == SubSeq(field, LastDot(field, Len(field)) + 1, Len(field))

\* the item the same function returns for one selected field
ProjectedAlone(r, field) ==
    IF r.kind = "extractFields" THEN extractFields(r.call.obj, <<field>>)
    ELSE extractJoinFields(r.call.left, r.call.right, <<field>>)

\* the position of the last field of a select list with a given last segment
LastNamed(select, name) ==
    CHOOSE k \in DOMAIN select :
        /\ AfterLastDot(select[k]) = name
        /\ \A j \in DOMAIN select : AfterLastDot(select[j]) = name => j <= k

\* C29: the projected item has exactly one entry per distinct last
\* dot-separated segment of the selected fields, named by that segment, and
\* the entry holds the value of the last selected field with that segment.
C29_ProjectionNames ==
    \A i \in DOMAIN results :
        results[i].kind \in {"extractFields", "extractJoinFields"}
            => LET r == results[i]
                   select == r.call.select
                   names == {AfterLastDot(select[k]) : k \in DOMAIN select}
               IN  /\ Len(r.item.o) = Cardinality(names)
                   /\ {r.item.o[j][1] : j \in DOMAIN r.item.o} = names
                   /\ \A j \in DOMAIN r.item.o :
                          LET alone == ProjectedAlone(r, select[LastNamed(select, r.item.o[j][1])])
                          IN  alone.o = << r.item.o[j] >>

(***************************************************************************)
(* SpecStreamLive: one iterator and one consumer that awaits each next()   *)
(* before it issues the following one, and may go on calling next() after  *)
(* the iterator has reported done or has thrown                            *)
(***************************************************************************)
\* the calls a consumer makes at most: enough to drain the longest file and
\* to ask twice more
NextCallBound == MaxFileLen + 2

LiveConsumer == [kind |-> "consumer", calling |-> FALSE, settled |-> 0, last |-> "none"]

Settle(o, outcome) ==
    [o EXCEPT !.calling = FALSE, !.settled = @ + 1, !.last = outcome]

\* the consumer calls next(): the body starts at the head of its loop
CallNext ==
    /\ op.kind = "consumer"
    /\ ~op.calling
    /\ op.settled < NextCallBound
    /\ pc \in {"idle", "done", "thrown"}
    /\ pc' = "idle"
    /\ op' = [op EXCEPT !.calling = TRUE]
    /\ UNCHANGED <<file, emitted, buffer, ended, error, resolveWait, yielded,
                   calls, results, log>>

LiveWait == op.calling /\ NextWait

LiveTake ==
    /\ op.calling
    /\ IterYield
    /\ op' = Settle(op, "element")
    /\ UNCHANGED <<calls, results, log>>

LiveDone ==
    /\ op.calling
    /\ IterDone
    /\ op' = Settle(op, "done")
    /\ UNCHANGED <<calls, results, log>>

LiveThrow ==
    /\ op.calling
    /\ IterThrow
    /\ op' = Settle(op, "thrown")
    /\ UNCHANGED <<calls, results, log>>

InitStreamLive ==
    /\ \E f \in Files : InitStreamOn(f)
    /\ op = LiveConsumer
    /\ calls = <<>>
    /\ results = <<>>
    /\ log = <<>>

\* the continuation of the consumer inside next()
ConsumerRuns == LiveWait \/ LiveTake \/ LiveDone \/ LiveThrow

NextStreamLive ==
    \/ OnData
    \/ OnEnd
    \/ OnError
    \/ CallNext
    \/ LiveWait
    \/ LiveTake
    \/ LiveDone
    \/ LiveThrow

\* the pipeline goes on emitting 'data' and then 'end' unless it fails, and
\* the event loop runs a continuation that is runnable; nothing obliges the
\* consumer to call next() again, nor the parser to fail
SpecStreamLive ==
    /\ InitStreamLive
    /\ [][NextStreamLive]_vars
    /\ WF_vars(OnData)
    /\ WF_vars(OnEnd)
    /\ WF_vars(ConsumerRuns)

\* C26: every next() call of a consumer that awaits each call eventually
\* settles; a consumer that sleeps has its resolver registered and nothing
\* to take, so no wake-up is lost; and once 'end' has been seen and the
\* buffer is empty every next() that settles returns done.
C26_NextSettles ==
    /\ [](pc = "waiting" => resolveWait /\ MustWait)
    /\ [][(op.calling /\ ~op'.calling /\ ended /\ buffer = <<>>)
            => op'.last = "done"]_vars
    /\ (op.calling ~> ~op.calling)

\* the consumer drained a file of several elements and got done from two
\* next() calls in a row
C26_Witness ==
    /\ Len(file) >= 2
    /\ op.last = "done"
    /\ ~op.calling
    /\ op.settled = Len(file) + 2


(***************************************************************************)
(* The sampler's own path evaluation (analyzer/sampler.ts)                 *)
(***************************************************************************)
\* what one item contributes to `next` in the sampler's getValueAtPath: the
\* wildcard branch spreads arrays only
SamplerSelectSegment(item, seg) ==
    IF item = Null \/ item = Undefined THEN <<>>
    ELSE IF seg.type = "key" THEN SelectKey(item, seg.key)
    ELSE IF seg.type = "wildcard"
         THEN IF IsArr(item) THEN item.a ELSE <<>>
    ELSE IF IsArr(item) /\ seg.index < Len(item.a) THEN <<item.a[seg.index + 1]>>
    ELSE <<>>

RECURSIVE SamplerStepSegment(_, _)
SamplerStepSegment(current, seg) ==
    IF current = <<>> THEN <<>>
    ELSE SamplerSelectSegment(Head(current), seg)
            \o SamplerStepSegment(Tail(current), seg)

RECURSIVE SamplerEvalSegments(_, _)
SamplerEvalSegments(current, segs) ==
    IF segs = <<>> THEN current
    ELSE LET next == SamplerStepSegment(current, Head(segs))
         IN  IF next = <<>> THEN next ELSE SamplerEvalSegments(next, Tail(segs))

\* getValueAtPath of sampler.ts (a list, unlike the query engine's function
\* of the same name)
samplerGetValueAtPath(obj, path) == SamplerEvalSegments(<<obj>>, parsePath(path))

SamplerPathCalls ==
    {[kind |-> "samplerGetValueAtPath", obj |-> v, path |-> t] :
        v \in PathObjects, t \in PathTexts}

EvalSamplerGetValueAtPath ==
    /\ calls # <<>>
    /\ Head(calls).kind = "samplerGetValueAtPath"
    /\ LET c == Head(calls)
       IN  results' = Append(results,
                [kind |-> "samplerGetValueAtPath", call |-> c,
                 values |-> samplerGetValueAtPath(c.obj, c.path)])
    /\ calls' = Tail(calls)
    /\ UNCHANGED <<streamVars, op, log>>

InitSamplerPath ==
    /\ InitHarness
    /\ \E c \in SamplerPathCalls : calls = <<c>>

NextSamplerPath == EvalSamplerGetValueAtPath

SpecSamplerPath == InitSamplerPath /\ [][NextSamplerPath]_vars

\* C30: on every value and path the sampler's getValueAtPath returns the list
\* the query engine's getValuesAtPath returns, a wildcard applied to an
\* object included
C30_SamplerPathAgrees ==
    \A i \in 1..Len(results) :
        results[i].kind = "samplerGetValueAtPath"
            => results[i].values
                 = getValuesAtPath(results[i].call.obj, results[i].call.path)

\* the two agree whenever no wildcard segment meets an object
C30_AgreesWithoutObjectWildcard ==
    \A i \in 1..Len(results) :
        (/\ results[i].kind = "samplerGetValueAtPath"
         /\ \A s \in 1..Len(parsePath(results[i].call.path)) :
                parsePath(results[i].call.path)[s].type # "wildcard")
            => results[i].values
                 = getValuesAtPath(results[i].call.obj, results[i].call.path)


(***************************************************************************)
(* The sampler (analyzer/sampler.ts): seededRandom, reservoirSample,       *)
(* truncateValue, matchesEntityType, sampleData                            *)
(***************************************************************************)
\* 0x7fffffff
StateMask == 2147483647
LcgMultiplier == 1103515245
LcgIncrement == 12345

\* a double that holds a non-negative integer below 2^64, as four 16-bit
\* limbs, lowest first
Limb == 65536
DoubleBits == 53

\* the exact product state * 1103515245 for 0 <= state <= 0x7fffffff
LcgProduct(state) ==
    LET a0 == state % Limb
        a1 == state \div Limb
        c0 == LcgMultiplier % Limb
        c1 == LcgMultiplier \div Limb
        t0 == a0 * c0
        t1 == a0 * c1 + a1 * c0 + (t0 \div Limb)
        t2 == a1 * c1 + (t1 \div Limb)
    IN  <<t0 % Limb, t1 % Limb, t2 % Limb, t2 \div Limb>>

\* x + n, limb by limb from limb i on
RECURSIVE LimbsAdd(_, _, _)
LimbsAdd(x, i, n) ==
    IF n = 0 \/ i > Len(x) THEN x
    ELSE LET t == x[i] + n
         IN  LimbsAdd([x EXCEPT ![i] = t % Limb], i + 1, t \div Limb)

\* the number of significant bits
LimbsBitLen(x) ==
    IF x[4] > 0 THEN 48 + BitLen(x[4])
    ELSE IF x[3] > 0 THEN 32 + BitLen(x[3])
    ELSE IF x[2] > 0 THEN 16 + BitLen(x[2])
    ELSE BitLen(x[1])

\* the nearest double, ties to even: an integer of more than 53 bits loses
\* its lowest bits (at most 11 of them, all in the lowest limb)
RoundToDouble(x) ==
    LET k == LimbsBitLen(x) - DoubleBits
    IN  IF k <= 0 THEN x
        ELSE LET unit == Pow2(k)
                 rem == x[1] % unit
                 down == [x EXCEPT ![1] = @ - rem]
                 odd == (x[1] \div unit) % 2 = 1
                 up == rem * 2 > unit \/ (rem * 2 = unit /\ odd)
             IN  IF up THEN LimbsAdd(down, 1, unit) ELSE down

\* `(state * 1103515245 + 12345) & 0x7fffffff`: two rounded operations on
\* doubles, then the low 31 bits of the 32-bit integer conversion
NextState(state) ==
    LET product == RoundToDouble(LcgProduct(state))
        sum == RoundToDouble(LimbsAdd(product, 1, LcgIncrement))
    IN  (sum[2] % (Limb \div 2)) * Limb + sum[1]

\* Math.floor((state / 0x7fffffff) * currentTotal): the largest j with
\* j * 0x7fffffff <= state * currentTotal (the quotient is an integer only
\* at state 0 and 0x7fffffff, and is otherwise further from an integer than
\* the rounding of the two operations)
FloorOfRandomTimes(state, currentTotal) ==
    LET a == StateMask \div currentTotal
        b == StateMask % currentTotal
        reached(j) == state >= j * a + ((j * b + currentTotal - 1) \div currentTotal)
    IN  CHOOSE j \in 0..currentTotal :
            /\ reached(j)
            /\ \A h \in (j + 1)..currentTotal : ~reached(h)

\* mutant: the slot is written without the `replaceIndex < maxSize` test
reservoirSampleUnchecked(items, newItem, maxSize, state, currentTotal) ==
    IF Len(items) < maxSize
    THEN [items |-> Append(items, newItem), state |-> state]
    ELSE LET drawn == NextState(state)
             replaceIndex == FloorOfRandomTimes(drawn, currentTotal)
         IN  [items |-> [i \in 1..Max2(Len(items), replaceIndex + 1) |->
                            IF i = replaceIndex + 1 THEN newItem
                            ELSE IF i <= Len(items) THEN items[i]
                            ELSE Undefined],
              state |-> drawn]

\* reservoirSample; `random` is the closure over `state`, which a call of
\* random() advances, so the new state is returned with the items
reservoirSample(items, newItem, maxSize, state, currentTotal) ==
    IF Len(items) < maxSize
    THEN [items |-> Append(items, newItem), state |-> state]
    ELSE LET drawn == NextState(state)
             replaceIndex == FloorOfRandomTimes(drawn, currentTotal)
         IN  [items |-> IF replaceIndex < maxSize
                        THEN [items EXCEPT ![replaceIndex + 1] = newItem]
                        ELSE items,
              state |-> drawn]


ArrayMarker(n) == <<"[", "A", "r", "r", "a", "y", "(">> \o NatToStr(n) \o <<")", "]">>
ObjectMarker == <<"{", "O", "b", "j", "e", "c", "t", "}">>
Ellipsis == <<".", ".", ".">>

\* truncateValue; the entries of an object are rebuilt with `result[k] = ...`
RECURSIVE truncateValue(_, _, _, _)
RECURSIVE TruncateEntries(_, _, _, _, _)
truncateValue(value, maxStringLength, maxDepth, currentDepth) ==
    IF currentDepth > maxDepth
    THEN IF IsArr(value) THEN Str(ArrayMarker(Len(value.a)))
         ELSE IF IsObj(value) THEN Str(ObjectMarker)
         ELSE value
    ELSE IF IsStr(value) /\ Len(value.s) > maxStringLength
         THEN Str(SubSeq(value.s, 1, maxStringLength) \o Ellipsis)
    ELSE IF IsArr(value)
         THEN Arr([i \in 1..Len(value.a) |->
                     truncateValue(value.a[i], maxStringLength, maxDepth,
                                   currentDepth + 1)])
    ELSE IF IsObj(value)
         THEN Obj(TruncateEntries(value.o, <<>>, maxStringLength, maxDepth,
                                  currentDepth))
    ELSE value

TruncateEntries(entries, result, maxStringLength, maxDepth, currentDepth) ==
    IF entries = <<>> THEN result
    ELSE TruncateEntries(Tail(entries),
            AssignField(result, Head(entries)[1],
                        truncateValue(Head(entries)[2], maxStringLength, maxDepth,
                                      currentDepth + 1)),
            maxStringLength, maxDepth, currentDepth)

kEntityId == <<"e", "n", "t", "i", "t", "y", "I", "d">>
kDollarType == <<"$", "t", "y", "p", "e">>

\* matchesEntityType
matchesEntityType(entity, entityType) ==
    IF ~(IsObj(entity) \/ IsArr(entity)) THEN FALSE
    ELSE IF IsObj(entity) /\ HasKey(entity.o, kEntityId)
              /\ IsStr(GetKey(entity.o, kEntityId))
         THEN StartsWith(GetKey(entity.o, kEntityId).s, entityType \o <<":">>)
    ELSE IF IsObj(entity) /\ HasKey(entity.o, kDollarType)
              /\ IsStr(GetKey(entity.o, kDollarType))
         THEN Includes(GetKey(entity.o, kDollarType).s, entityType)
    ELSE FALSE

EntitiesText == <<"e", "n", "t", "i", "t", "i", "e", "s">>
EntitiesPrefix == EntitiesText \o <<"[", "*", "]", ".">>

DefaultCount == 3
DefaultTruncateStrings == 200
DefaultSampleDepth == 10

\* `values` of one element in the loop of sampleData: the values at the path,
\* or the element itself where no path is evaluated
SampleValues(o, value) ==
    IF Truthy(o.call.options, "path") /\ ~StartsWith(o.path, EntitiesText)
    THEN samplerGetValueAtPath(value, o.path)
    ELSE IF Has(o.call.options, "path") /\ StartsWith(o.path, EntitiesPrefix)
         THEN samplerGetValueAtPath(value,
                  SubSeq(o.path, Len(EntitiesPrefix) + 1, Len(o.path)))
    ELSE <<value>>

\* targetValue = values.length === 1 ? values[0] : values
TargetValue(o, value) ==
    LET values == SampleValues(o, value)
    IN  IF Len(values) = 1 THEN values[1] ELSE Arr(values)

\* the element passes both `continue` statements
IsMatched(o, value) ==
    /\ SampleValues(o, value) # <<>>
    /\ Truthy(o.call.options, "entityType")
         => matchesEntityType(value, o.entityType)

\* one iteration of `for await (const { value } of stream)`; `slots` is a
\* ghost of `samples` that holds, slot by slot, the position in the stream of
\* the element the sample came from
SampleBody(o, value) ==
    LET scanned == [o EXCEPT !.totalScanned = @ + 1]
    IN  IF ~IsMatched(o, value) THEN scanned
        ELSE LET n == o.matchedCount + 1
                 truncated == truncateValue(TargetValue(o, value),
                                            o.truncateStrings, o.maxDepth, 0)
                 r == reservoirSample(o.samples, truncated, o.count, o.state, n)
                 g == reservoirSample(o.slots, scanned.totalScanned, o.count,
                                      o.state, n)
             IN  [scanned EXCEPT !.matchedCount = n,
                                 !.samples = r.items,
                                 !.slots = g.items,
                                 !.state = r.state]

\* sampleData up to its loop; `now` is what Date.now() returns
SampleStart ==
    /\ Callable
    /\ calls # <<>>
    /\ Head(calls).kind = "sampleData"
    /\ LET c == Head(calls)
       IN  /\ OpenStream(c.file)
           /\ op' = [kind |-> "sampleData",
                     call |-> c,
                     count |-> OrDefault(c.options, "count", DefaultCount),
                     path |-> OrDefault(c.options, "path", <<>>),
                     entityType |-> OrDefault(c.options, "entityType", <<>>),
                     truncateStrings |-> OrDefault(c.options, "truncateStrings",
                                                   DefaultTruncateStrings),
                     maxDepth |-> OrDefault(c.options, "maxDepth", DefaultSampleDepth),
                     state |-> OrDefault(c.options, "seed", c.now),
                     samples |-> <<>>,
                     slots |-> <<>>,
                     totalScanned |-> 0,
                     matchedCount |-> 0]
    /\ calls' = Tail(calls)
    /\ UNCHANGED <<results, log>>

SampleStep ==
    /\ op.kind = "sampleData"
    /\ IterYield
    /\ op' = SampleBody(op, Head(buffer).value)
    /\ UNCHANGED <<calls, results, log>>

SampleReturn ==
    /\ op.kind = "sampleData"
    /\ IterDone
    /\ results' = Append(results, [kind |-> "sampleData", call |-> op.call,
                                   items |-> op.samples,
                                   totalScanned |-> op.totalScanned,
                                   matchedCount |-> op.matchedCount,
                                   slots |-> op.slots])
    /\ op' = NoOp
    /\ UNCHANGED <<calls, log>>

(***************************************************************************)
(* SpecSample: sampleData on one file                                      *)
(***************************************************************************)
\* {entityId: "p:1", lv: 1.5, tg: [1, 2]}
SmpP == Obj(<< <<kEntityId, Str(<<"p", ":", "1">>)>>, <<kLv, Num(15)>>,
               <<kTags, Arr(<<Num(10), Num(20)>>)>> >>)
\* {entityId: "q:2", lv: 2, tg: [{id: "pa"}]}
SmpQ == Obj(<< <<kEntityId, Str(<<"q", ":", "2">>)>>, <<kLv, Num(20)>>,
               <<kTags, Arr(<<Obj(<< <<kId, Str(<<"p", "a">>)>> >>)>>)>> >>)
\* {$type: "xpx", tg: []}
SmpT == Obj(<< <<kDollarType, Str(<<"x", "p", "x">>)>>, <<kTags, Arr(<<>>)>> >>)

SampleElements == {SmpP, SmpQ, SmpT}

SampleFiles == SeqsUpTo(SampleElements, MaxFileLen)

SampleCounts == {[count |-> n] : n \in 0..2} \cup {NoOptions}

SamplePaths ==
    {[path |-> p] : p \in {kLv, kTags \o <<"[", "*", "]">>,
                           EntitiesPrefix \o kLv}} \cup {NoOptions}

SampleEntityTypes == {[entityType |-> <<"p">>], NoOptions}

SampleSeeds == {[seed |-> 0], NoOptions}

SampleTruncations == {[truncateStrings |-> 1, maxDepth |-> 0], NoOptions}

\* the union of option records that name different options
Merge(a, b) ==
    [k \in DOMAIN a \cup DOMAIN b |-> IF k \in DOMAIN a THEN a[k] ELSE b[k]]

SampleOptions ==
    {Merge(Merge(Merge(Merge(c, p), e), s), t) :
        c \in SampleCounts, p \in SamplePaths, e \in SampleEntityTypes,
        s \in SampleSeeds, t \in SampleTruncations}

\* a value of Date.now() that fits the 31 bits of the generator's state
SampleNow == 42

SampleCalls ==
    {[kind |-> "sampleData", file |-> f, options |-> o, now |-> SampleNow] :
        f \in SampleFiles, o \in SampleOptions}

InitSample ==
    /\ InitHarness
    /\ \E c \in SampleCalls : calls = <<c>>

NextSample ==
    \/ SampleStart
    \/ OnData
    \/ OnEnd
    \/ OnError
    \/ NextWait
    \/ SampleStep
    \/ SampleReturn
    \/ OpReject

SpecSample == InitSample /\ [][NextSample]_vars

\* the positions in the stream of the matched elements among the first n
MatchedPositions(o, f, n) == {k \in 1..n : IsMatched(o, f[k])}

\* what the reservoir of the call `o` has to satisfy after n elements of f
ReservoirHolds(o, f, n, samples, slots, matchedCount) ==
    /\ matchedCount = Cardinality(MatchedPositions(o, f, n))
    /\ Len(samples) = Min2(o.count, matchedCount)
    /\ Len(slots) = Len(samples)
    /\ \A i \in 1..Len(samples) :
          /\ slots[i] \in MatchedPositions(o, f, n)
          /\ samples[i] = truncateValue(TargetValue(o, f[slots[i]]),
                                        o.truncateStrings, o.maxDepth, 0)
          /\ \A j \in 1..Len(samples) : slots[j] = slots[i] => j = i
    /\ matchedCount <= n

\* C23: after any number n of matched elements the sample of sampleData holds
\* exactly min(count, n) items, each the truncated target value of a matched
\* element of the stream, no element in two slots and none of an unmatched
\* element; matchedCount never exceeds totalScanned, at the end included
C23_ReservoirInvariant ==
    /\ op.kind = "sampleData"
         => /\ op.totalScanned = Len(yielded)
            /\ ReservoirHolds(op, op.call.file, op.totalScanned, op.samples,
                              op.slots, op.matchedCount)
    /\ \A i \in 1..Len(results) :
          results[i].kind = "sampleData"
            => /\ results[i].totalScanned = Len(results[i].call.file)
               /\ results[i].matchedCount <= results[i].totalScanned
               /\ Len(results[i].items)
                    = Min2(OrDefault(results[i].call.options, "count", DefaultCount),
                           results[i].matchedCount)

\* of the file [p, t, p] sampled for entity type "p" with count 1, the first
\* element filled the slot, the second was not matched and the third
\* overwrote the slot
C23_Witness ==
    /\ results # <<>>
    /\ results[1].kind = "sampleData"
    /\ results[1].call.file = <<SmpP, SmpT, SmpP>>
    /\ Has(results[1].call.options, "entityType")
    /\ Len(results[1].items) = 1
    /\ results[1].slots = <<3>>
    /\ results[1].matchedCount = 2
    /\ results[1].totalScanned = 3


(***************************************************************************)
(* Relationship inference (analyzer/schema-extractor.ts): collectIdFields, *)
(* scanFileForIds, findRelationships                                       *)
(***************************************************************************)
\* the letters of `entityId` and `id` under the /i flag
IdFold(c) == IF c = "Y" THEN "y" ELSE ToLowerChar(c)
IdFoldAll(s) == [i \in 1..Len(s) |-> IdFold(s[i])]

\* ID_FIELD_PATTERNS.some(pattern => pattern.test(name))
isIdFieldName(name) ==
    \/ EndsWith(name, <<"I", "d">>)
    \/ EndsWith(name, <<"I", "d", "s">>)
    \/ EndsWith(name, <<"i", "d">>)
    \/ EndsWith(name, <<"i", "d", "s">>)
    \/ Includes(IdFoldAll(name), <<"e", "n", "t", "i", "t", "y", "i", "d">>)
    \/ IdFoldAll(name) = <<"i", "d">>

\* /^[A-Z][a-zA-Z]+:[0-9A-Fa-f]+$/
ENTITY_ID_VALUE_PATTERN(v) ==
    LET c == RunEnd(v, 1, Letters)
    IN  /\ c >= 2
        /\ v[1] \in UpperLetters
        /\ c + 2 <= Len(v)
        /\ v[c + 1] = ":"
        /\ AllIn(v, c + 2, Len(v), HexDigits)

isEntityIdValue(value) == IsStr(value) /\ ENTITY_ID_VALUE_PATTERN(value.s)

kValue == <<"v", "a", "l", "u", "e">>

\* extractIdValue: the string, or Null
extractIdValue(value) ==
    IF IsStr(value) THEN value
    ELSE IF IsNum(value) THEN Str(NumToStr(value.n))
    ELSE IF IsObj(value) /\ HasKey(value.o, kValue)
              /\ (IsStr(GetKey(value.o, kValue)) \/ IsNum(GetKey(value.o, kValue)))
         THEN Str(ToStr(GetKey(value.o, kValue)))
    ELSE Null

\* `if (idValue)`: neither null nor the empty string
IdTruthy(idValue) == idValue # Null /\ idValue.s # <<>>

\* if (!idFields.has(path)) idFields.set(path, new Set());
\* idFields.get(path).add(v): a Map of Sets, both in insertion order
AddId(idFields, path, v) ==
    LET values == IF HasKey(idFields, path) THEN GetKey(idFields, path) ELSE <<>>
    IN  SetKey(idFields, path, IF ArrIncludes(values, v) THEN values
                               ELSE Append(values, v))

WildcardText == <<"[", "*", "]">>

\* the loop over the items of an array that is the value of an id field
RECURSIVE AddItemIds(_, _, _)
AddItemIds(items, path, idFields) ==
    IF items = <<>> THEN idFields
    ELSE LET itemValue == extractIdValue(Head(items))
         IN  AddItemIds(Tail(items), path,
                        IF IdTruthy(itemValue) THEN AddId(idFields, path, itemValue.s)
                        ELSE idFields)

DefaultIdDepth == 20

RECURSIVE collectIdFields(_, _, _, _)
RECURSIVE CollectItems(_, _, _, _)
RECURSIVE CollectEntries(_, _, _, _)
\* collectIdFields: the Map after the call
collectIdFields(obj, currentPath, idFields, maxDepth) ==
    IF maxDepth <= 0 THEN idFields
    ELSE IF obj = Null \/ obj = Undefined THEN idFields
    ELSE IF IsArr(obj) THEN CollectItems(obj.a, currentPath, idFields, maxDepth)
    ELSE IF IsObj(obj) THEN CollectEntries(obj.o, currentPath, idFields, maxDepth)
    ELSE idFields

CollectItems(items, currentPath, idFields, maxDepth) ==
    IF items = <<>> THEN idFields
    ELSE CollectItems(Tail(items), currentPath,
            collectIdFields(Head(items), currentPath \o WildcardText, idFields,
                            maxDepth - 1),
            maxDepth)

CollectEntries(entries, currentPath, idFields, maxDepth) ==
    IF entries = <<>> THEN idFields
    ELSE LET key == Head(entries)[1]
             value == Head(entries)[2]
             newPath == IF currentPath # <<>> THEN currentPath \o <<".">> \o key
                        ELSE key
             idValue == extractIdValue(value)
             own == IF IdTruthy(idValue) THEN AddId(idFields, newPath, idValue.s)
                    ELSE idFields
             named == IF IsArr(value)
                      THEN AddItemIds(value.a, newPath \o WildcardText, own)
                      ELSE own
             found == IF isIdFieldName(key) THEN named
                      ELSE IF isEntityIdValue(value)
                           THEN AddId(idFields, newPath, value.s)
                      ELSE idFields
         IN  CollectEntries(Tail(entries), currentPath,
                            collectIdFields(value, newPath, found, maxDepth - 1),
                            maxDepth)

\* detectValuePattern: the pattern, or the empty sequence for `undefined`
TypeOfId(v) == SubSeq(v, 1, RunEnd(v, 1, Letters))

detectValuePattern(values) ==
    LET sample == SubSeq(values, 1, Min2(Len(values), 10))
        types == {TypeOfId(sample[i]) : i \in 1..Len(sample)}
    IN  IF \A i \in 1..Len(sample) : ENTITY_ID_VALUE_PATTERN(sample[i])
        THEN IF Cardinality(types) = 1
             THEN TypeOfId(sample[1]) \o <<":", "*">>
             ELSE <<"E", "n", "t", "i", "t", "y", "I", "d", ":", "*">>
        ELSE IF \A i \in 1..Len(sample) :
                    Len(sample[i]) >= 16 /\ AllIn(sample[i], 1, Len(sample[i]), HexDigits)
        THEN <<"h", "e", "x", "-", "i", "d">>
        ELSE IF \A i \in 1..Len(sample) :
                    Len(sample[i]) >= 1 /\ AllIn(sample[i], 1, Len(sample[i]), Digits)
        THEN <<"n", "u", "m", "e", "r", "i", "c", "-", "i", "d">>
        ELSE <<>>

inferRelationshipType(leftPath, rightPath, leftCount, rightCount) ==
    LET leftIsArray == Includes(leftPath, WildcardText)
        rightIsArray == Includes(rightPath, WildcardText)
    IN  IF leftIsArray /\ ~rightIsArray THEN "one-to-many"
        ELSE IF ~leftIsArray /\ rightIsArray THEN "many-to-one"
        ELSE IF leftIsArray /\ rightIsArray THEN "many-to-many"
        ELSE IF leftCount = rightCount THEN "one-to-one"
        ELSE "many-to-one"

\* the loop `for (const value of leftValues) if (rightValues.has(value))`
RECURSIVE CountMatched(_, _)
CountMatched(leftValues, rightValues) ==
    IF leftValues = <<>> THEN 0
    ELSE (IF ArrIncludes(rightValues, Head(leftValues)) THEN 1 ELSE 0)
            + CountMatched(Tail(leftValues), rightValues)

Hundred == 100

\* (matchedCount / leftValues.size) * 100
CoverageOf(matchedCount, size) ==
    FMul(FDiv(OfInt(matchedCount), OfInt(size)), OfInt(Hundred))

\* the body of the two loops over the id fields for one pair of paths
PairBody(relationships, left, right, minCoverage) ==
    LET matchedCount == CountMatched(left[2], right[2])
        coverage == CoverageOf(matchedCount, Len(left[2]))
    IN  IF matchedCount = 0 THEN relationships
        ELSE IF FLessEq(minCoverage, coverage)
        THEN Append(relationships,
                [leftPath |-> left[1],
                 rightPath |-> right[1],
                 relationshipType |->
                     inferRelationshipType(left[1], right[1], Len(left[2]),
                                           Len(right[2])),
                 matchedCount |-> matchedCount,
                 totalCount |-> Len(left[2]),
                 coverage |-> coverage])
        ELSE relationships

RECURSIVE RightLoop(_, _, _, _)
RightLoop(relationships, left, rightIdFields, minCoverage) ==
    IF rightIdFields = <<>> THEN relationships
    ELSE RightLoop(PairBody(relationships, left, Head(rightIdFields), minCoverage),
                   left, Tail(rightIdFields), minCoverage)

RECURSIVE LeftLoop(_, _, _, _)
LeftLoop(relationships, leftIdFields, rightIdFields, minCoverage) ==
    IF leftIdFields = <<>> THEN relationships
    ELSE LeftLoop(RightLoop(relationships, Head(leftIdFields), rightIdFields,
                            minCoverage),
                  Tail(leftIdFields), rightIdFields, minCoverage)

\* relationships.sort((a, b) => b.coverage - a.coverage): a stable sort, so
\* an element goes behind those before it that are not smaller
RECURSIVE InsertByCoverage(_, _)
InsertByCoverage(sorted, r) ==
    IF sorted = <<>> THEN <<r>>
    ELSE IF FLess(sorted[Len(sorted)].coverage, r.coverage)
         THEN Append(InsertByCoverage(SubSeq(sorted, 1, Len(sorted) - 1), r),
                     sorted[Len(sorted)])
    ELSE Append(sorted, r)

RECURSIVE SortByCoverage(_)
SortByCoverage(relationships) ==
    IF relationships = <<>> THEN <<>>
    ELSE InsertByCoverage(
            SortByCoverage(SubSeq(relationships, 1, Len(relationships) - 1)),
            relationships[Len(relationships)])

\* Array.from(idFields.entries()).map(...), kept when verbose or when a
\* relationship names the path
IdFieldsResult(idFields, relationships, side, verbose) ==
    LET all == [i \in 1..Len(idFields) |->
                   [path |-> idFields[i][1], values |-> idFields[i][2],
                    valuePattern |-> detectValuePattern(idFields[i][2])]]
    IN  IF verbose THEN all
        ELSE SelectSeq(all, LAMBDA f :
                \E i \in 1..Len(relationships) : relationships[i][side] = f.path)

DefaultMinCoverage == 50


\* scanFileForIds of a whole file
RECURSIVE IdsOfFile(_, _)
IdsOfFile(f, idFields) ==
    IF f = <<>> THEN idFields
    ELSE IdsOfFile(Tail(f), collectIdFields(Head(f), <<>>, idFields, DefaultIdDepth))

\* the sorted relationships of two Maps of id fields
RelationshipsOf(leftIdFields, rightIdFields, minCoverage) ==
    SortByCoverage(LeftLoop(<<>>, leftIdFields, rightIdFields, minCoverage))

\* what findRelationships returns once both files are scanned
RelationshipResult(o) ==
    LET relationships ==
            RelationshipsOf(o.leftIdFields, o.rightIdFields, o.minCoverage)
    IN  [kind |-> "findRelationships",
         call |-> o.call,
         relationships |-> relationships,
         leftIdFields |-> IdFieldsResult(o.leftIdFields, relationships,
                                         "leftPath", o.verbose),
         rightIdFields |-> IdFieldsResult(o.rightIdFields, relationships,
                                          "rightPath", o.verbose),
         scannedLeft |-> o.scannedLeft,
         scannedRight |-> o.scannedRight]

AutoDetectCoverage == 30

\* `if (!leftKey || !rightKey)`
KeysOmitted(options) == ~Truthy(options, "leftKey") \/ ~Truthy(options, "rightKey")

\* findRelationships up to the loop of the first scanFileForIds, called
\* directly or by executeJoin to detect the keys
RelateStart ==
    /\ Callable
    /\ calls # <<>>
    /\ \/ Head(calls).kind = "findRelationships"
       \/ Head(calls).kind = "executeJoin" /\ KeysOmitted(Head(calls).options)
    /\ LET c == Head(calls)
           direct == c.kind = "findRelationships"
       IN  /\ OpenStream(c.leftFile)
           /\ op' = [kind |-> "findRelationships",
                     phase |-> "left",
                     call |-> c,
                     minCoverage |->
                         OfInt(IF direct
                               THEN OrDefault(c.options, "minCoverage",
                                              DefaultMinCoverage)
                               ELSE AutoDetectCoverage),
                     verbose |-> direct /\ OrDefault(c.options, "verbose", FALSE),
                     leftIdFields |-> <<>>,
                     rightIdFields |-> <<>>,
                     scannedLeft |-> 0,
                     scannedRight |-> 0]
    /\ calls' = Tail(calls)
    /\ UNCHANGED <<results, log>>

\* one iteration of the loop of scanFileForIds(leftFile)
ScanLeftStep ==
    /\ op.kind = "findRelationships"
    /\ op.phase = "left"
    /\ IterYield
    /\ op' = [op EXCEPT !.scannedLeft = @ + 1,
                        !.leftIdFields = collectIdFields(Head(buffer).value, <<>>,
                                                         @, DefaultIdDepth)]
    /\ UNCHANGED <<calls, results, log>>

\* the first scan returns and the second opens the right file
ScanLeftDone ==
    /\ op.kind = "findRelationships"
    /\ op.phase = "left"
    /\ AtEnd
    /\ OpenStream(op.call.rightFile)
    /\ op' = [op EXCEPT !.phase = "right"]
    /\ UNCHANGED <<calls, results, log>>

ScanRightStep ==
    /\ op.kind = "findRelationships"
    /\ op.phase = "right"
    /\ IterYield
    /\ op' = [op EXCEPT !.scannedRight = @ + 1,
                        !.rightIdFields = collectIdFields(Head(buffer).value, <<>>,
                                                          @, DefaultIdDepth)]
    /\ UNCHANGED <<calls, results, log>>

\* findRelationships called directly returns its result
RelateReturn ==
    /\ op.kind = "findRelationships"
    /\ op.phase = "right"
    /\ op.call.kind = "findRelationships"
    /\ IterDone
    /\ results' = Append(results, RelationshipResult(op))
    /\ op' = NoOp
    /\ UNCHANGED <<calls, log>>

NoRelationshipError ==
    [t |-> "error",
     message |->
     <<
       "N", "o", " ", "r", "e", "l", "a", "t", "i", "o", "n", "s", "h", "i",
       "p", " ", "d", "e", "t", "e", "c", "t", "e", "d", " ", "b", "e", "t",
       "w", "e", "e", "n", " ", "f", "i", "l", "e", "s", ".", " ", "P", "l",
       "e", "a", "s", "e", " ", "s", "p", "e", "c", "i", "f", "y", " ", "-",
       "-", "l", "e", "f", "t", "-", "k", "e", "y", " ", "a", "n", "d", " ",
       "-", "-", "r", "i", "g", "h", "t", "-", "k", "e", "y", " ", "e", "x",
       "p", "l", "i", "c", "i", "t", "l", "y", "." >>]

\* executeJoin: `if (relationshipResult.relationships.length === 0) throw`
AutoDetectFail ==
    /\ op.kind = "findRelationships"
    /\ op.phase = "right"
    /\ op.call.kind = "executeJoin"
    /\ RelationshipResult(op).relationships = <<>>
    /\ IterDone
    /\ results' = Append(results, Rejection(op.call, NoRelationshipError))
    /\ op' = NoOp
    /\ UNCHANGED <<calls, log>>

\* mutant: the relationship of the lowest coverage is taken
BestMatchLast(relationships) == relationships[Len(relationships)]

\* const bestMatch = relationshipResult.relationships[0]
BestMatch(relationships) == relationships[1]

\* executeJoin takes the keys of the best match and goes on to the loop of
\* buildRightIndex
AutoDetectJoin ==
    /\ op.kind = "findRelationships"
    /\ op.phase = "right"
    /\ op.call.kind = "executeJoin"
    /\ RelationshipResult(op).relationships # <<>>
    /\ AtEnd
    /\ LET c == op.call
           bestMatch == BestMatch(RelationshipResult(op).relationships)
           filterCondition ==
               IF Truthy(c.options, "filter") THEN parseJoinFilter(c.options.filter)
               ELSE NoCondition
       IN  /\ OpenStream(c.rightFile)
           /\ log' = WarnIfInvalid(c.options, filterCondition)
           /\ op' = [kind |-> "executeJoin",
                     phase |-> "index",
                     call |-> c,
                     leftKey |-> bestMatch.leftPath,
                     rightKey |-> bestMatch.rightPath,
                     autoDetected |-> TRUE,
                     select |-> OrDefault(c.options, "select", <<>>),
                     limit |-> OrDefault(c.options, "limit", DefaultLimit),
                     filterCondition |-> filterCondition,
                     rightIndex |-> <<>>,
                     rightScanned |-> 0,
                     items |-> <<>>,
                     totalMatched |-> 0,
                     leftScanned |-> 0]
    /\ UNCHANGED <<calls, results>>

RelateCall(l, r, options) ==
    [kind |-> "findRelationships", leftFile |-> l, rightFile |-> r,
     options |-> options]

(***************************************************************************)
(* SpecRelate: findRelationships, alone or inside an executeJoin that is   *)
(* called without one of its keys                                          *)
(***************************************************************************)
MaxRelateLen == 2

kOwnerId == <<"o", "w", "n", "e", "r", "I", "d">>
kRefIds == <<"r", "e", "f", "I", "d", "s">>
kTagIds == <<"t", "a", "g", "I", "d", "s">>
kName == <<"n", "m">>
kK == <<"k">>

\* left: {id: "a", ownerId: "b"}
RelL1 == Obj(<< <<kId, Str(<<"a">>)>>, <<kOwnerId, Str(<<"b">>)>> >>)
\* left: {id: "b", nm: "Ab:1"}
RelL2 == Obj(<< <<kId, Str(<<"b">>)>>, <<kName, Str(<<"A", "b", ":", "1">>)>> >>)
\* left: {id: 7, refIds: ["a", {value: "c"}]}
RelL3 == Obj(<< <<kId, Num(70)>>,
                <<kRefIds, Arr(<<Str(<<"a">>),
                                 Obj(<< <<kValue, Str(<<"c">>)>> >>)>>)>> >>)
\* right: {id: "a"}
RelR1 == Obj(<< <<kId, Str(<<"a">>)>> >>)
\* right: {k: {id: "b"}, nm: "Ab:1"}
RelR2 == Obj(<< <<kK, Obj(<< <<kId, Str(<<"b">>)>> >>)>>,
                <<kName, Str(<<"A", "b", ":", "1">>)>> >>)
\* right: {tagIds: ["a", "c"], id: ""}
RelR3 == Obj(<< <<kTagIds, Arr(<<Str(<<"a">>), Str(<<"c">>)>>)>>,
                <<kId, Str(<<>>)>> >>)

RelateLeftFiles == SeqsUpTo({RelL1, RelL2, RelL3}, MaxRelateLen)

RelateRightFiles ==
    {<<>>, <<RelR1>>, <<RelR2>>, <<RelR3>>, <<RelR2, RelR1>>, <<RelR3, RelR2>>}

RelateOptions ==
    {NoOptions, [minCoverage |-> 0], [minCoverage |-> 30], [minCoverage |-> 100],
     [minCoverage |-> 30, verbose |-> TRUE]}

\* executeJoin without keys, or with the left key only
AutoJoinOptions ==
    {NoOptions, [leftKey |-> kOwnerId], [limit |-> 1, filter |-> FilterNoOperator]}

RelateCalls ==
    {RelateCall(l, r, o) :
        l \in RelateLeftFiles, r \in RelateRightFiles, o \in RelateOptions}
    \cup {JoinCall(l, r, o) :
            l \in RelateLeftFiles, r \in RelateRightFiles, o \in AutoJoinOptions}

InitRelate ==
    /\ InitHarness
    /\ \E c \in RelateCalls : calls = <<c>>

NextRelate ==
    \/ RelateStart
    \/ OnData
    \/ OnEnd
    \/ OnError
    \/ NextWait
    \/ ScanLeftStep
    \/ ScanLeftDone
    \/ ScanRightStep
    \/ RelateReturn
    \/ AutoDetectFail
    \/ AutoDetectJoin
    \/ IndexStep
    \/ IndexDone
    \/ ProbeStep
    \/ JoinReturn
    \/ OpReject

SpecRelate == InitRelate /\ [][NextRelate]_vars

RelateResults == {i \in DOMAIN results : results[i].kind = "findRelationships"}

\* the distinct id values of a path of a file
IdValues(f, path) ==
    LET ids == IdsOfFile(f, <<>>)
    IN  IF HasKey(ids, path) THEN {GetKey(ids, path)[i] :
                                       i \in 1..Len(GetKey(ids, path))}
        ELSE {}

IdPaths(f) == {IdsOfFile(f, <<>>)[i][1] : i \in 1..Len(IdsOfFile(f, <<>>))}

\* the coverage of a pair of paths as the claim defines it
PairCoverage(c, lp, rp) ==
    CoverageOf(Cardinality(IdValues(c.leftFile, lp) \cap IdValues(c.rightFile, rp)),
               Cardinality(IdValues(c.leftFile, lp)))

\* the pairs that a result has to report
PairsAtOrAbove(c) ==
    {<<lp, rp>> \in IdPaths(c.leftFile) \X IdPaths(c.rightFile) :
        FLessEq(OfInt(OrDefault(c.options, "minCoverage", DefaultMinCoverage)),
                PairCoverage(c, lp, rp))}

ReportedPairs(r) ==
    {<<r.relationships[j].leftPath, r.relationships[j].rightPath>> :
        j \in 1..Len(r.relationships)}

\* order, bounds and numbers of the reported relationships
WellReported(r) ==
    /\ \A j \in 1..Len(r.relationships) :
          LET rel == r.relationships[j]
          IN  /\ rel.coverage = PairCoverage(r.call, rel.leftPath, rel.rightPath)
              /\ rel.matchedCount <= rel.totalCount
              /\ FLessEq(rel.coverage, OfInt(Hundred))
              /\ j > 1 => FLessEq(rel.coverage, r.relationships[j - 1].coverage)
    /\ \A j, h \in 1..Len(r.relationships) :
          (/\ r.relationships[j].leftPath = r.relationships[h].leftPath
           /\ r.relationships[j].rightPath = r.relationships[h].rightPath) => j = h

\* C21: findRelationships reports exactly the pairs of id paths whose
\* coverage, distinct left values found on the right over distinct left
\* values times 100, is at or above minCoverage, in order of non-increasing
\* coverage, each with matchedCount <= totalCount and coverage <= 100
C21_ReportedPairs ==
    \A i \in RelateResults :
        /\ ReportedPairs(results[i]) = PairsAtOrAbove(results[i].call)
        /\ WellReported(results[i])

\* the same with the pairs that share no value left out
C21_ReportedOverlappingPairs ==
    \A i \in RelateResults :
        /\ ReportedPairs(results[i])
             = {p \in PairsAtOrAbove(results[i].call) :
                    IdValues(results[i].call.leftFile, p[1])
                      \cap IdValues(results[i].call.rightFile, p[2]) # {}}
        /\ WellReported(results[i])

\* relationships were reported out of the order of the loops
C21_Sorted ==
    \E i \in RelateResults :
        /\ Len(results[i].relationships) >= 2
        /\ results[i].relationships
             # LeftLoop(<<>>, IdsOfFile(results[i].call.leftFile, <<>>),
                        IdsOfFile(results[i].call.rightFile, <<>>),
                        OfInt(OrDefault(results[i].call.options, "minCoverage",
                                        DefaultMinCoverage)))


\* the relationships that inference at 30% finds between the files of a call
DetectedFor(c) ==
    RelationshipsOf(IdsOfFile(c.leftFile, <<>>), IdsOfFile(c.rightFile, <<>>),
                    OfInt(AutoDetectCoverage))

\* the first relationship is one that no other exceeds in coverage
FirstIsHighest(rels) ==
    \A j \in 1..Len(rels) : ~FLess(rels[1].coverage, rels[j].coverage)

AutoJoinResults ==
    {i \in DOMAIN results :
        results[i].call.kind = "executeJoin" /\ KeysOmitted(results[i].call.options)}

\* C22: when executeJoin is called without one of its keys and inference at
\* 30% finds no relationship, the call rejects with the error that asks for
\* explicit keys, returns no JoinResult, builds no index and probes no left
\* element; when a relationship is found, the keys used are those of the
\* first, highest-coverage relationship and joinKeys.autoDetected is true
C22_AutoDetect ==
    /\ (op.kind = "executeJoin" /\ KeysOmitted(op.call.options))
         => /\ DetectedFor(op.call) # <<>>
            /\ FirstIsHighest(DetectedFor(op.call))
            /\ op.leftKey = DetectedFor(op.call)[1].leftPath
            /\ op.rightKey = DetectedFor(op.call)[1].rightPath
            /\ op.autoDetected
    /\ \A i \in AutoJoinResults :
          LET r == results[i]
              rels == DetectedFor(r.call)
          IN  IF rels = <<>>
              THEN /\ r.kind = "rejected"
                   /\ error = NoError => r.error = NoRelationshipError
              ELSE /\ r.kind = "rejected" => r.error = error /\ error # NoError
                   /\ r.kind = "executeJoin"
                        => /\ FirstIsHighest(rels)
                           /\ r.joinKeys = [leftKey |-> rels[1].leftPath,
                                            rightKey |-> rels[1].rightPath,
                                            autoDetected |-> TRUE]

\* a join that detected its keys among several relationships of different
\* coverage, although the call named a left key, and matched elements
C22_Witness ==
    \E i \in AutoJoinResults :
        /\ results[i].kind = "executeJoin"
        /\ Has(results[i].call.options, "leftKey")
        /\ results[i].joinKeys.leftKey # results[i].call.options.leftKey
        /\ results[i].totalMatched >= 1
        /\ \E j \in 1..Len(DetectedFor(results[i].call)) :
              FLess(DetectedFor(results[i].call)[j].coverage,
                    DetectedFor(results[i].call)[1].coverage)

\* both files were scanned, hold id fields, and the join was rejected for
\* want of a relationship
C22_Rejected ==
    \E i \in AutoJoinResults :
        /\ results[i] = Rejection(results[i].call, NoRelationshipError)
        /\ IdsOfFile(results[i].call.leftFile, <<>>) # <<>>
        /\ IdsOfFile(results[i].call.rightFile, <<>>) # <<>>


(***************************************************************************)
(* Reports (analytics/reports.ts): runPlayerKpisReport, runRetentionReport *)
(***************************************************************************)
pEntityId == kEntityId
pCharacterIds ==
    <<"p", "a", "y", "l", "o", "a", "d", ".", "c", "h", "a", "r", "a", "c", "t", "e", "r", "R", "o", "s", "t", "e", "r", ".", "c", "h", "a", "r", "a", "c", "t", "e", "r", "I", "d", "s", "[", "*", "]">>
pCharacterClassId ==
    <<"p", "a", "y", "l", "o", "a", "d", ".", "c", "h", "a", "r", "a", "c", "t", "e", "r", ".", "c", "h", "a", "r", "a", "c", "t", "e", "r", "C", "l", "a", "s", "s", "I", "d">>
pDeviceHistory ==
    <<"p", "a", "y", "l", "o", "a", "d", ".", "d", "e", "v", "i", "c", "e", "H", "i", "s", "t", "o", "r", "y", "[", "*", "]">>
pLoginHistory ==
    <<"p", "a", "y", "l", "o", "a", "d", ".", "l", "o", "g", "i", "n", "H", "i", "s", "t", "o", "r", "y", "[", "*", "]">>
pFirstLogin == <<"f", "i", "r", "s", "t", "L", "o", "g", "i", "n">>
pLastLogin == <<"l", "a", "s", "t", "L", "o", "g", "i", "n">>
pTimestamp == <<"t", "i", "m", "e", "s", "t", "a", "m", "p">>
PlayerPrefix == <<"P", "l", "a", "y", "e", "r", ":">>
CharacterPrefix == <<"P", "l", "a", "y", "e", "r", "C", "h", "a", "r", "a", "c", "t", "e", "r", ":">>

\* `if (v)` for a JSON value
JsTruthy(v) ==
    /\ v \notin {Undefined, Null, Bool(FALSE), Str(<<>>)}
    /\ ~(IsNum(v) /\ v.n = 0)

\* entityId?.startsWith(prefix) raises for an entityId that is neither
\* nullish nor a string
StartsWithRaises(value) ==
    LET entityId == getValueAtPath(value, pEntityId)
    IN  entityId # Undefined /\ entityId # Null /\ ~IsStr(entityId)

\* entityId?.startsWith(prefix), `undefined` counting as false
IdStartsWith(value, prefix) ==
    LET entityId == getValueAtPath(value, pEntityId)
    IN  IsStr(entityId) /\ StartsWith(entityId.s, prefix)

NotAFunction ==
    [t |-> "error", name |-> <<"T", "y", "p", "e", "E", "r", "r", "o", "r">>,
     message |-> <<"e", "n", "t", "i", "t", "y", "I", "d", "?", ".", "s", "t", "a", "r", "t", "s", "W", "i", "t", "h", " ", "i", "s", " ", "n", "o", "t", " ", "a", " ", "f", "u", "n", "c", "t", "i", "o", "n">>]

\* x.toFixed(2) of a finite number that is not negative
ToFixed2(x) ==
    LET n == (2 * 100 * x.fin + FloatOne) \div (2 * FloatOne)
    IN  NatToStr(n \div 100) \o <<".", DigitChar((n \div 10) % 10), DigitChar(n % 10)>>

\* the digits of a decimal text without its point
DigitsOnly(text) == SelectSeq(text, LAMBDA c : c # ".")

\* parseFloat(x.toFixed(1)) as a JSON number
ParseFixed1(text) == Num(ParseIntDigits(DigitsOnly(text)))

\* parseFloat(x.toFixed(2)), in hundredths
ParseFixed2(text) == [hundredths |-> ParseIntDigits(DigitsOnly(text))]

RECURSIVE IntSum(_)
IntSum(s) == IF s = <<>> THEN 0 ELSE Head(s) + IntSum(Tail(s))

SeqMin(s) == CHOOSE x \in {s[i] : i \in 1..Len(s)} : \A i \in 1..Len(s) : x <= s[i]
SeqMax(s) == CHOOSE x \in {s[i] : i \in 1..Len(s)} : \A i \in 1..Len(s) : x >= s[i]

\* the loop body of runPlayerKpisReport over live.json
KpisLiveBody(o, value) ==
    IF IdStartsWith(value, PlayerPrefix)
    THEN [o EXCEPT !.totalPlayers = @ + 1,
                   !.playerCharCounts =
                       Append(@, Len(getValuesAtPath(value, pCharacterIds)))]
    ELSE o

\* the loop body of runPlayerKpisReport over chars.json
KpisCharsBody(o, value) ==
    LET charClass == getValueAtPath(value, pCharacterClassId)
        counted == [o EXCEPT !.totalCharacters = @ + 1]
    IN  IF ~IdStartsWith(value, CharacterPrefix) THEN o
        ELSE IF JsTruthy(charClass)
        THEN [counted EXCEPT !.classCount =
                 GroupsSet(@, ToStr(charClass),
                           Incremented(GroupsGet(@, ToStr(charClass))))]
        ELSE counted

\* the ReportResult of runPlayerKpisReport
KpisResult(o) ==
    [kind |-> "playerKpis",
     call |-> o.call,
     totalPlayers |-> o.totalPlayers,
     totalCharacters |-> o.totalCharacters,
     charactersPerPlayer |->
         IF Len(o.playerCharCounts) > 0
         THEN [min |-> SeqMin(o.playerCharCounts),
               max |-> SeqMax(o.playerCharCounts),
               avg |-> ParseFixed2(ToFixed2(
                           FDiv(OfInt(IntSum(o.playerCharCounts)),
                                OfInt(Len(o.playerCharCounts)))))]
         ELSE [min |-> 0, max |-> 0, avg |-> [hundredths |-> 0]],
     classDistribution |-> o.classCount]

KpisOp(c, phase) ==
    [kind |-> "playerKpis", phase |-> phase, call |-> c, totalPlayers |-> 0,
     totalCharacters |-> 0, playerCharCounts |-> <<>>, classCount |-> <<>>]

\* runPlayerKpisReport up to its first loop, or to its end when the
\* directory holds neither file
KpisStart ==
    /\ Callable
    /\ calls # <<>>
    /\ Head(calls).kind = "playerKpis"
    /\ LET c == Head(calls)
       IN  IF Has(c, "live")
           THEN /\ OpenStream(c.live)
                /\ op' = KpisOp(c, "live")
                /\ UNCHANGED results
           ELSE IF Has(c, "chars")
           THEN /\ OpenStream(c.chars)
                /\ op' = KpisOp(c, "chars")
                /\ UNCHANGED results
           ELSE /\ results' = Append(results, KpisResult(KpisOp(c, "none")))
                /\ UNCHANGED <<streamVars, op>>
    /\ calls' = Tail(calls)
    /\ UNCHANGED log

KpisLiveStep ==
    /\ op.kind = "playerKpis"
    /\ op.phase = "live"
    /\ IterYield
    /\ ~StartsWithRaises(Head(buffer).value)
    /\ op' = KpisLiveBody(op, Head(buffer).value)
    /\ UNCHANGED <<calls, results, log>>

\* the loop over live.json ends and the one over chars.json begins
KpisLiveDone ==
    /\ op.kind = "playerKpis"
    /\ op.phase = "live"
    /\ Has(op.call, "chars")
    /\ AtEnd
    /\ OpenStream(op.call.chars)
    /\ op' = [op EXCEPT !.phase = "chars"]
    /\ UNCHANGED <<calls, results, log>>

KpisCharsStep ==
    /\ op.kind = "playerKpis"
    /\ op.phase = "chars"
    /\ IterYield
    /\ ~StartsWithRaises(Head(buffer).value)
    /\ op' = KpisCharsBody(op, Head(buffer).value)
    /\ UNCHANGED <<calls, results, log>>

KpisReturn ==
    /\ op.kind = "playerKpis"
    /\ op.phase = "chars" \/ ~Has(op.call, "chars")
    /\ IterDone
    /\ results' = Append(results, KpisResult(op))
    /\ op' = NoOp
    /\ UNCHANGED <<calls, log>>

\* either loop of either report meets an entityId without startsWith
ReportThrow ==
    /\ op.kind \in {"playerKpis", "retention"}
    /\ IterYield
    /\ StartsWithRaises(Head(buffer).value)
    /\ results' = Append(results, Rejection(op.call, NotAFunction))
    /\ op' = NoOp
    /\ UNCHANGED <<calls, log>>

\* Number(ts) of what the loop pushes to `timestamps`, in milliseconds, or
\* NaN: a string has gone through new Date(...).getTime(); the numbers of
\* the model are whole milliseconds
Millis(n) == [ms |-> n]

TimeOf(v) ==
    IF IsStr(v) THEN (IF IsIsoDate(v.s) THEN Millis(IsoDateMs(v.s)) ELSE NaN)
    ELSE IF IsNum(v) THEN Millis(v.n \div Scale)
    ELSE IF v = Bool(TRUE) THEN Millis(1)
    ELSE NaN

\* `if (x) { ts = ...; if (!isNaN(ts)) timestamps.push(ts) }` for the value
\* at a path of a history entry
PushTime(timestamps, entry, path) ==
    LET x == getValueAtPath(entry, path)
    IN  IF JsTruthy(x) /\ ~IsNaN(TimeOf(x)) THEN Append(timestamps, TimeOf(x).ms)
        ELSE timestamps

\* typeof dh === 'object' && dh !== null
IsObjectLike(v) == IsObj(v) \/ IsArr(v)

RECURSIVE DeviceTimes(_, _)
DeviceTimes(timestamps, deviceHistory) ==
    IF deviceHistory = <<>> THEN timestamps
    ELSE LET dh == Head(deviceHistory)
         IN  DeviceTimes(IF IsObjectLike(dh)
                         THEN PushTime(PushTime(timestamps, dh, pFirstLogin), dh,
                                       pLastLogin)
                         ELSE timestamps,
                         Tail(deviceHistory))

RECURSIVE LoginTimes(_, _)
LoginTimes(timestamps, loginEvents) ==
    IF loginEvents = <<>> THEN timestamps
    ELSE LET le == Head(loginEvents)
         IN  LoginTimes(IF IsObjectLike(le) THEN PushTime(timestamps, le, pTimestamp)
                        ELSE timestamps,
                        Tail(loginEvents))

\* the timestamps of one player
TimestampsOf(value) ==
    LoginTimes(DeviceTimes(<<>>, getValuesAtPath(value, pDeviceHistory)),
               getValuesAtPath(value, pLoginHistory))

\* mutant: a player without timestamps is in neither group
RetentionBodySkipping(o, value) ==
    LET timestamps == TimestampsOf(value)
        span == SeqMax(timestamps) - SeqMin(timestamps)
        counted == [o EXCEPT !.totalPlayers = @ + 1]
    IN  IF ~IdStartsWith(value, PlayerPrefix) THEN o
        ELSE IF timestamps = <<>> THEN counted
        ELSE [counted EXCEPT
                !.newPlayers = IF span < MsPerDay THEN @ + 1 ELSE @,
                !.returningPlayers = IF span < MsPerDay THEN @ ELSE @ + 1,
                !.d1Count = IF span >= MsPerDay THEN @ + 1 ELSE @,
                !.d3Count = IF span >= 3 * MsPerDay THEN @ + 1 ELSE @,
                !.d7Count = IF span >= 7 * MsPerDay THEN @ + 1 ELSE @]

\* the loop body of runRetentionReport; daysSinceFirst is (lastTs - firstTs)
\* / day1, and compares with 1, 3 and 7 as the span does with that many days
RetentionBody(o, value) ==
    LET timestamps == TimestampsOf(value)
        span == SeqMax(timestamps) - SeqMin(timestamps)
        counted == [o EXCEPT !.totalPlayers = @ + 1]
    IN  IF ~IdStartsWith(value, PlayerPrefix) THEN o
        ELSE IF timestamps = <<>> THEN [counted EXCEPT !.newPlayers = @ + 1]
        ELSE [counted EXCEPT
                !.newPlayers = IF span < MsPerDay THEN @ + 1 ELSE @,
                !.returningPlayers = IF span < MsPerDay THEN @ ELSE @ + 1,
                !.d1Count = IF span >= MsPerDay THEN @ + 1 ELSE @,
                !.d3Count = IF span >= 3 * MsPerDay THEN @ + 1 ELSE @,
                !.d7Count = IF span >= 7 * MsPerDay THEN @ + 1 ELSE @]

\* totalPlayers > 0 ? parseFloat(((count / totalPlayers) * 100).toFixed(1)) : 0
RateOf(count, totalPlayers) ==
    IF totalPlayers > 0
    THEN ParseFixed1(ToFixed1(FMul(FDiv(OfInt(count), OfInt(totalPlayers)),
                                   OfInt(Hundred))))
    ELSE Num(0)

RetentionOp(c) ==
    [kind |-> "retention", call |-> c, totalPlayers |-> 0, d1Count |-> 0,
     d3Count |-> 0, d7Count |-> 0, newPlayers |-> 0, returningPlayers |-> 0]

\* the ReportResult of runRetentionReport
RetentionResult(o) ==
    [kind |-> "retention",
     call |-> o.call,
     totalPlayers |-> o.totalPlayers,
     d1Retention |-> [count |-> o.d1Count, rate |-> RateOf(o.d1Count, o.totalPlayers)],
     d3Retention |-> [count |-> o.d3Count, rate |-> RateOf(o.d3Count, o.totalPlayers)],
     d7Retention |-> [count |-> o.d7Count, rate |-> RateOf(o.d7Count, o.totalPlayers)],
     newPlayers |-> o.newPlayers,
     returningPlayers |-> o.returningPlayers]

\* runRetentionReport up to its loop, or to its end without live.json
RetentionStart ==
    /\ Callable
    /\ calls # <<>>
    /\ Head(calls).kind = "retention"
    /\ LET c == Head(calls)
       IN  IF Has(c, "live")
           THEN /\ OpenStream(c.live)
                /\ op' = RetentionOp(c)
                /\ UNCHANGED results
           ELSE /\ results' = Append(results, RetentionResult(RetentionOp(c)))
                /\ UNCHANGED <<streamVars, op>>
    /\ calls' = Tail(calls)
    /\ UNCHANGED log

RetentionStep ==
    /\ op.kind = "retention"
    /\ IterYield
    /\ ~StartsWithRaises(Head(buffer).value)
    /\ op' = RetentionBody(op, Head(buffer).value)
    /\ UNCHANGED <<calls, results, log>>

RetentionReturn ==
    /\ op.kind = "retention"
    /\ IterDone
    /\ results' = Append(results, RetentionResult(op))
    /\ op' = NoOp
    /\ UNCHANGED <<calls, log>>

(***************************************************************************)
(* SpecReports: one report on a directory that holds live.json, chars.json,*)
(* both or neither                                                         *)
(***************************************************************************)
kPayload == <<"p", "a", "y", "l", "o", "a", "d">>
kCharacter == <<"c", "h", "a", "r", "a", "c", "t", "e", "r">>
kCharacterClassId == <<"c", "h", "a", "r", "a", "c", "t", "e", "r", "C", "l", "a", "s", "s", "I", "d">>
kCharacterRoster == <<"c", "h", "a", "r", "a", "c", "t", "e", "r", "R", "o", "s", "t", "e", "r">>
kCharacterIds == <<"c", "h", "a", "r", "a", "c", "t", "e", "r", "I", "d", "s">>
kDeviceHistory == <<"d", "e", "v", "i", "c", "e", "H", "i", "s", "t", "o", "r", "y">>
kLoginHistory == <<"l", "o", "g", "i", "n", "H", "i", "s", "t", "o", "r", "y">>

Entity(entityId, payload) ==
    Obj(<< <<kEntityId, entityId>>, <<kPayload, Obj(payload)>> >>)

\* {entityId: "Player:1", payload: {characterRoster: {characterIds: ["a", "b"]}}}
PlayerWithRoster ==
    Entity(Str(PlayerPrefix \o <<"1">>),
           << <<kCharacterRoster,
                Obj(<< <<kCharacterIds, Arr(<<Str(<<"a">>), Str(<<"b">>)>>)>> >>)>> >>)
\* {entityId: "Player:2", payload: {}}
PlayerBare == Entity(Str(PlayerPrefix \o <<"2">>), <<>>)
\* {entityId: 5, payload: {}}
NumberedEntity == Entity(Num(50), <<>>)

CharacterOfClass(n, class) ==
    Entity(Str(CharacterPrefix \o n),
           << <<kCharacter, Obj(<< <<kCharacterClassId, class>> >>)>> >>)
\* {entityId: "PlayerCharacter:3", payload: {character: {}}}
CharacterWithoutClass ==
    Entity(Str(CharacterPrefix \o <<"3">>), << <<kCharacter, Obj(<<>>)>> >>)

KpisLiveElements == {PlayerWithRoster, PlayerBare, NumberedEntity}

KpisCharsElements ==
    {CharacterOfClass(<<"1">>, Str(<<"T">>)), CharacterOfClass(<<"2">>, Str(<<"U">>)),
     CharacterWithoutClass, PlayerBare}

Day(d) == Str(<<"1", "9", "7", "0", "-", "0", "1", "-", "0", d>>)

PlayerWithDevices(n, entries) ==
    Entity(Str(PlayerPrefix \o n), << <<kDeviceHistory, Arr(entries)>> >>)
PlayerWithLogins(n, entries) ==
    Entity(Str(PlayerPrefix \o n), << <<kLoginHistory, Arr(entries)>> >>)

\* eight days between the first and the last login of one device
RetainedWeek ==
    PlayerWithDevices(<<"1">>,
        <<Obj(<< <<pFirstLogin, Day("1")>>, <<pLastLogin, Day("9")>> >>)>>)
\* three days between two login events
RetainedThreeDays ==
    PlayerWithLogins(<<"2">>,
        <<Obj(<< <<pTimestamp, Day("2")>> >>), Obj(<< <<pTimestamp, Day("5")>> >>)>>)
\* one day and a second between two numeric timestamps
RetainedDay ==
    PlayerWithDevices(<<"3">>,
        <<Obj(<< <<pFirstLogin, Num(1000 * Scale)>>,
                 <<pLastLogin, Num(86401000 * Scale)>> >>)>>)
\* a date that does not parse, and a timestamp of 0
Unparsed ==
    PlayerWithDevices(<<"4">>,
        <<Obj(<< <<pFirstLogin, Str(<<"x">>)>>, <<pLastLogin, Num(0)>> >>), Null>>)
\* a single login
SingleLogin ==
    PlayerWithLogins(<<"5">>, <<Obj(<< <<pTimestamp, Day("3")>> >>)>>)

RetentionElements ==
    {RetainedWeek, RetainedThreeDays, RetainedDay, Unparsed, SingleLogin,
     CharacterWithoutClass, NumberedEntity}

WithFile(c, name, files) == {c} \cup {With(c, name, f) : f \in files}

ReportCalls ==
    UNION {WithFile(c, "chars", SeqsUpTo(KpisCharsElements, MaxFileLen)) :
             c \in WithFile([kind |-> "playerKpis"], "live",
                            SeqsUpTo(KpisLiveElements, MaxFileLen - 1))}
    \cup WithFile([kind |-> "retention"], "live",
                  SeqsUpTo(RetentionElements, MaxFileLen))

InitReports ==
    /\ InitHarness
    /\ \E c \in ReportCalls : calls = <<c>>

NextReports ==
    \/ KpisStart
    \/ RetentionStart
    \/ OnData
    \/ OnEnd
    \/ OnError
    \/ NextWait
    \/ KpisLiveStep
    \/ KpisLiveDone
    \/ KpisCharsStep
    \/ KpisReturn
    \/ RetentionStep
    \/ RetentionReturn
    \/ ReportThrow
    \/ OpReject

SpecReports == InitReports /\ [][NextReports]_vars

RetentionResults == {i \in DOMAIN results : results[i].kind = "retention"}
KpisResults == {i \in DOMAIN results : results[i].kind = "playerKpis"}

InPercent(rate) == IsNum(rate) /\ rate.n >= 0 /\ rate.n <= Hundred * Scale

\* C24: in every retention report newPlayers + returningPlayers =
\* totalPlayers, d1.count >= d3.count >= d7.count, and each of the three
\* rates lies between 0 and 100
C24_RetentionCounters ==
    \A i \in RetentionResults :
        LET r == results[i]
        IN  /\ r.newPlayers + r.returningPlayers = r.totalPlayers
            /\ r.d1Retention.count >= r.d3Retention.count
            /\ r.d3Retention.count >= r.d7Retention.count
            /\ InPercent(r.d1Retention.rate)
            /\ InPercent(r.d3Retention.rate)
            /\ InPercent(r.d7Retention.rate)

\* three players: one retained for a week, one for three days, one without
\* a usable timestamp
C24_Witness ==
    \E i \in RetentionResults :
        /\ results[i].totalPlayers = 3
        /\ results[i].d7Retention.count = 1
        /\ results[i].d3Retention.count = 2
        /\ results[i].d1Retention.count = 2
        /\ results[i].newPlayers = 1
        /\ results[i].d1Retention.rate \notin {Num(0), Num(Hundred * Scale)}

\* the sum of the counts of a distribution, or -1 if an entry is no number
RECURSIVE SumOfClassCounts(_)
SumOfClassCounts(distribution) ==
    IF distribution = <<>> THEN 0
    ELSE IF IsNum(Head(distribution)[2]) /\ SumOfClassCounts(Tail(distribution)) >= 0
         THEN Head(distribution)[2].n \div Scale + SumOfClassCounts(Tail(distribution))
    ELSE -1

\* C25: in every player-kpis report the counts of classDistribution sum to
\* totalCharacters
C25_ClassesSumToCharacters ==
    \A i \in KpisResults :
        SumOfClassCounts(results[i].classDistribution) = results[i].totalCharacters

\* the counts sum to the number of characters that have a class
C25_ClassesSumToClassed ==
    \A i \in KpisResults :
        SumOfClassCounts(results[i].classDistribution)
          = Cardinality({k \in 1..Len(OrDefault(results[i].call, "chars", <<>>)) :
                /\ IdStartsWith(results[i].call.chars[k], CharacterPrefix)
                /\ JsTruthy(getValueAtPath(results[i].call.chars[k],
                                           pCharacterClassId))})


(***************************************************************************)
(* SpecBridge: two resolve_type tool calls that run on one event loop and  *)
(* share the module-level `client` and `transport` of mcp-bridge.ts. A     *)
(* step is what one call runs between two awaits.                          *)
(***************************************************************************)
\* the resolve_type calls each of the two requesters makes at most
MaxRuns == 1

\* `let client: Client | null = null`
NullClient == 0

Tasks == {1, 2}

Other(t) == 3 - t

\* made: the client whose connect or close the call awaits
IdleTask ==
    [at |-> "idle", mcpClient |-> NullClient, made |-> NullClient, runs |-> 0,
     overlapped |-> FALSE]

\* the module state of mcp-bridge.ts, the Client objects made so far with
\* the state of their connection, and the position of each call
BridgeStart ==
    [kind |-> "bridge", client |-> NullClient, transport |-> NullClient,
     state |-> <<>>, task |-> [t \in Tasks |-> IdleTask]]

InCall(t) == op.task[t].at # "idle"

\* a call uses the client from the return of getClient to the settling of
\* its callTool
Using(t, c) ==
    /\ c # NullClient
    /\ op.task[t].at \in {"gotClient", "calling"}
    /\ op.task[t].mcpClient = c

StateOf(states, c) == IF c = NullClient THEN "null" ELSE states[c]

\* the call begins; a call is marked when another call was in progress at
\* some point of its run
Begun(t, at, c, made) ==
    LET beside == InCall(Other(t))
    IN  [op.task EXCEPT ![t] = [at |-> at, mcpClient |-> c, made |-> made,
                                runs |-> @.runs + 1, overlapped |-> beside],
                        ![Other(t)] = [@ EXCEPT !.overlapped = @ \/ beside]]

ToolResult(t, outcome) ==
    [kind |-> "resolveType", call |-> [task |-> t, run |-> op.task[t].runs],
     outcome |-> outcome]

HandedOut(t, c, states) ==
    [event |-> "handedOut", task |-> t, client |-> c, state |-> StateOf(states, c),
     overlapped |-> op.task[t].overlapped \/ InCall(Other(t))]

CanBegin(t) ==
    /\ op.kind = "bridge"
    /\ op.task[t].at = "idle"
    /\ op.task[t].runs < MaxRuns

\* handleResolveType without typeName or without project: errorResult, and
\* neither resolveType nor closeClient runs
HandleResolveTypeBadArgs(t) ==
    /\ CanBegin(t)
    /\ op' = [op EXCEPT !.task[t].runs = @ + 1]
    /\ results' = Append(results, [kind |-> "resolveType",
                                   call |-> [task |-> t, run |-> op.task[t].runs + 1],
                                   outcome |-> "missingParameter"])
    /\ UNCHANGED <<file, emitted, buffer, ended, error, resolveWait, pc,
                   yielded, calls, log>>

\* handleResolveType, resolveType and getClient up to `return client` of
\* `if (client)`: the call gets the module's client whatever its state
GetClientCached(t) ==
    /\ CanBegin(t)
    /\ op.client # NullClient
    /\ op' = [op EXCEPT !.task = Begun(t, "gotClient", op.client, NullClient)]
    /\ log' = Append(log, HandedOut(t, op.client, op.state))
    /\ UNCHANGED <<file, emitted, buffer, ended, error, resolveWait, pc,
                   yielded, calls, results>>

\* getClient with no client: the transport and the client are made and
\* stored, and connect is awaited
GetClientCreate(t) ==
    /\ CanBegin(t)
    /\ op.client = NullClient
    /\ LET c == Len(op.state) + 1
       IN  op' = [op EXCEPT !.client = c, !.transport = c,
                            !.state = Append(@, "connecting"),
                            !.task = Begun(t, "connecting", NullClient, c)]
    /\ UNCHANGED <<file, emitted, buffer, ended, error, resolveWait, pc,
                   yielded, calls, results, log>>

\* connect has resolved; `return client` reads the module variable again
ConnectResolves(t) ==
    /\ op.kind = "bridge"
    /\ op.task[t].at = "connecting"
    /\ LET made == op.task[t].made
           states == IF op.state[made] = "connecting"
                     THEN [op.state EXCEPT ![made] = "connected"]
                     ELSE op.state
       IN  /\ op' = [op EXCEPT !.state = states,
                               !.task[t].at = "gotClient",
                               !.task[t].mcpClient = op.client]
           /\ log' = Append(log, HandedOut(t, op.client, states))
    /\ UNCHANGED <<file, emitted, buffer, ended, error, resolveWait, pc,
                   yielded, calls, results>>

\* connect has rejected: the catch of resolveType makes an error result and
\* handleResolveType goes to its finally; `client` still holds the client
ConnectRejects(t) ==
    /\ op.kind = "bridge"
    /\ op.task[t].at = "connecting"
    /\ LET made == op.task[t].made
       IN  op' = [op EXCEPT !.state[made] = "failed",
                            !.task[t].at = "finally"]
    /\ UNCHANGED <<file, emitted, buffer, ended, error, resolveWait, pc,
                   yielded, calls, results, log>>

\* mcpClient.callTool({name: 'get_symbol', ...}) is issued
CallTool(t) ==
    /\ op.kind = "bridge"
    /\ op.task[t].at = "gotClient"
    /\ op.task[t].mcpClient # NullClient
    /\ op' = [op EXCEPT !.task[t].at = "calling"]
    /\ log' = Append(log, [event |-> "callTool", task |-> t,
                           client |-> op.task[t].mcpClient,
                           state |-> StateOf(op.state, op.task[t].mcpClient),
                           overlapped |-> op.task[t].overlapped])
    /\ UNCHANGED <<file, emitted, buffer, ended, error, resolveWait, pc,
                   yielded, calls, results>>

\* getClient returned null: mcpClient.callTool raises a TypeError, which the
\* catch of resolveType turns into an error result
CallToolOnNull(t) ==
    /\ op.kind = "bridge"
    /\ op.task[t].at = "gotClient"
    /\ op.task[t].mcpClient = NullClient
    /\ op' = [op EXCEPT !.task[t].at = "finally"]
    /\ UNCHANGED <<file, emitted, buffer, ended, error, resolveWait, pc,
                   yielded, calls, results, log>>

\* callTool settles, with an answer or with a rejection, and the result is
\* made; handleResolveType goes to its finally
CallToolSettles(t) ==
    /\ op.kind = "bridge"
    /\ op.task[t].at = "calling"
    /\ op' = [op EXCEPT !.task[t].at = "finally"]
    /\ UNCHANGED <<file, emitted, buffer, ended, error, resolveWait, pc,
                   yielded, calls, results, log>>

\* closeClient with a client: close is called on the module's client and
\* awaited
CloseClientBegin(t) ==
    /\ op.kind = "bridge"
    /\ op.task[t].at = "finally"
    /\ op.client # NullClient
    /\ op' = [op EXCEPT !.state[op.client] = "closed",
                        !.task[t].at = "closing",
                        !.task[t].made = op.client]
    /\ log' = Append(log, [event |-> "close", task |-> t, client |-> op.client,
                           state |-> StateOf(op.state, op.client),
                           overlapped |-> op.task[t].overlapped,
                           inUse |-> Using(Other(t), op.client)])
    /\ UNCHANGED <<file, emitted, buffer, ended, error, resolveWait, pc,
                   yielded, calls, results>>

Returned(t) == [op.task[t] EXCEPT !.at = "idle", !.mcpClient = NullClient,
                                  !.made = NullClient]

\* closeClient without a client: the call returns
CloseClientSkip(t) ==
    /\ op.kind = "bridge"
    /\ op.task[t].at = "finally"
    /\ op.client = NullClient
    /\ op' = [op EXCEPT !.task[t] = Returned(t)]
    /\ results' = Append(results, ToolResult(t, "returned"))
    /\ UNCHANGED <<file, emitted, buffer, ended, error, resolveWait, pc,
                   yielded, calls, log>>

\* close has settled: `client = null; transport = null`, whatever the
\* module's client is by now, and the call returns
CloseClientEnd(t) ==
    /\ op.kind = "bridge"
    /\ op.task[t].at = "closing"
    /\ op' = [op EXCEPT !.client = NullClient, !.transport = NullClient,
                        !.task[t] = Returned(t)]
    /\ log' = Append(log, [event |-> "clear", task |-> t, client |-> op.client,
                           state |-> StateOf(op.state, op.client),
                           overlapped |-> op.task[t].overlapped,
                           inUse |-> Using(Other(t), op.client)])
    /\ results' = Append(results, ToolResult(t, "returned"))
    /\ UNCHANGED <<file, emitted, buffer, ended, error, resolveWait, pc,
                   yielded, calls>>

InitBridge ==
    /\ InitStreamOn(<<>>)
    /\ op = BridgeStart
    /\ calls = <<>>
    /\ results = <<>>
    /\ log = <<>>

NextBridge ==
    \/ \E t \in Tasks : HandleResolveTypeBadArgs(t)
    \/ \E t \in Tasks : GetClientCached(t)
    \/ \E t \in Tasks : GetClientCreate(t)
    \/ \E t \in Tasks : ConnectResolves(t)
    \/ \E t \in Tasks : ConnectRejects(t)
    \/ \E t \in Tasks : CallTool(t)
    \/ \E t \in Tasks : CallToolOnNull(t)
    \/ \E t \in Tasks : CallToolSettles(t)
    \/ \E t \in Tasks : CloseClientBegin(t)
    \/ \E t \in Tasks : CloseClientSkip(t)
    \/ \E t \in Tasks : CloseClientEnd(t)

SpecBridge == InitBridge /\ [][NextBridge]_vars

Events(e) == {i \in DOMAIN log : log[i].event = e}

\* C27: for any interleaving of two concurrent resolve_type calls, every
\* client that getClient hands out and every client on which callTool is
\* issued has completed its connect and has not been closed, and closeClient
\* neither closes nor clears the client while the other call is using it.
C27_CallsOnLiveClient ==
    /\ \A i \in Events("handedOut") \cup Events("callTool") :
           log[i].state = "connected"
    /\ \A i \in Events("close") \cup Events("clear") : ~log[i].inUse

\* what holds of calls that do not overlap: a call during which no other
\* call was in progress is handed a connected client, issues its callTool on
\* a connected client, and closes a client nobody uses
C27_AloneOnLiveClient ==
    /\ \A i \in Events("handedOut") \cup Events("callTool") :
           ~log[i].overlapped => log[i].state = "connected"
    /\ \A i \in Events("close") \cup Events("clear") :
           ~log[i].overlapped => ~log[i].inUse

\* a call ran alone from its getClient to its return, with a callTool
C27_AloneWitness ==
    \E i \in Events("callTool") : \E j \in Events("clear") :
        /\ i < j
        /\ log[i].task = log[j].task
        /\ ~log[j].overlapped

====
